---- MODULE Spec2Model ----
(***************************************************************************)
(* A model of the bBot framework's asynchronous control code:              *)
(*   - Middleware.execute (src/lib/middleware.ts): an async piece stack    *)
(*     with next/done semantics and a completion hook;                     *)
(*   - the lifecycle controller (load/start/shutdown/pause/reset and the   *)
(*     status index).                                                      *)
(* Node's run-to-completion scheduling is modelled explicitly: a step is   *)
(* one synchronous segment of code (from a call or an await continuation   *)
(* to the next await); promise reactions (microtasks) run before any       *)
(* timer, I/O or caller event.                                             *)
(***************************************************************************)
EXTENDS Integers, Sequences, FiniteSets, TLC

\* ------------------------------------------------------------------------
\* Bounds
\* ------------------------------------------------------------------------

\* Largest number of pieces registered on the Middleware.
MaxStack == 2

\* Largest number of lifecycle calls (load, start, shutdown, pause, reset)
\* made from outside over one run.
MaxCalls == 3

\* Largest number of storage.saveMemory calls begun over one run.
MaxSaves == 2

\* Largest number of Memory calls (save, start, shutdown, setSaveInterval,
\* clearSaveInterval) made from outside over one run.
MaxMemCalls == 3

\* Largest number of objects allocated over one run.
MaxRefs == 6

\* Largest number of values the caller builds over one run.
MaxOwn == 1

\* Largest number of branch objects created over one run.
MaxBranches == 2

\* Largest number of doBit calls over one run.
MaxDoBits == 3

\* Largest number of branches of one stage that match one message.
MaxMatches == 2

\* Largest number of expressions a Conditions is given by add calls.
MaxExpressions == 2

\* Largest number of registration calls (middleware.<type>, Path.add,
\* setupBit) made from outside over one run.
MaxRegs == 1

\* ------------------------------------------------------------------------
\* Middleware: state
\* ------------------------------------------------------------------------

VARIABLES
  stack,        \* Middleware.stack: the registered pieces, in order
  phase,        \* position of execute/reduceStack
  idx,          \* index of the piece the for-of loop of reduceStack is at
  settled,      \* has the awaited promise (piece's or complete's) settled
  threw,        \* did the awaited call throw / reject
  done,         \* reduceStack's `done` variable: chain of wrappers over resolve
  isPending,    \* execute's isPending flag
  promise,      \* the promise built by `new Promise` in execute
  thenJob,      \* reaction job queued on that promise and not yet run
  outer,        \* the promise execute returns (after .then)
  err,          \* the error the promise was rejected with
  complete,     \* the complete callback handed to execute
  pendingDone,  \* async done wrappers started and waiting on their own I/O
  log           \* history of calls, for ordering properties

VARIABLES
  status,       \* the status index: the one key set to 1
  tasks,        \* lifecycle calls in flight: call number -> call stack (top first)
  micro,        \* calls whose continuation is a queued promise reaction, in order
  immediates,   \* calls whose continuation is a scheduled setImmediate, in order
  listeners,    \* calls waiting on an event, in the order they began to listen
  exited,       \* process.exit was called
  calls,        \* number of lifecycle calls made from outside
  shutdownWhileLoading  \* history: the latest outside call was a shutdown()
                        \* made while the status was loading

VARIABLES
  adapters,     \* the adapter slots that hold a loaded adapter
  middlewares,  \* the Middlewares collection: stage type -> stack of pieces
  global,       \* the global Path: collection -> branch id -> branch
  bits,         \* the Bit registry: the ids registered
  regs,         \* number of registration calls made from outside
  paused        \* history: a pause() made at rest while started, the
                \* registries at that call and the statuses set since

lcVars == <<status, tasks, micro, immediates, listeners, exited, calls,
           shutdownWhileLoading, adapters, middlewares, global, bits, regs,
           paused>>

VARIABLES
  autoSave,     \* the autoSave setting
  timer,        \* intervals.save.timer: the handle last returned by setInterval
  handles,      \* number of interval handles created so far
  armed,        \* the interval handles that are live (created and not cleared)
  saving,       \* the storage.saveMemory calls in flight, with who called
                \* save() and (history) whether it cleared a live interval
  saved,        \* number of saveMemory calls begun so far
  shutdownPc,   \* position of Memory.shutdown
  startPc,      \* position of Memory.start
  memCalls,     \* number of Memory calls made from outside
  cancelled,    \* history: the latest outside call was clearSaveInterval()
  stopped,      \* history: "closing" while the latest outside call is a
                \* shutdown() in flight, "yes" once that shutdown() has
                \* completed, until the next outside call
  thrown        \* history: the Memory method in which a TypeError was last
                \* raised, "none" until one is

VARIABLES
  heap,         \* the objects: reference -> [val, child]
  mem,          \* the memory object: collection -> key -> reference
  disk,         \* what the storage adapter holds: collection -> key -> content
  own,          \* references to the values the caller built
  given,        \* history: per key, the value the caller last passed to set()
  lastGet,      \* history: the latest get() and the reference it returned,
                \* until the next set() or load()
  loadPc,       \* position of a direct Memory.load
  trip,         \* history: a save() then load() with no mutation between,
                \* and the collections' contents when save() was called
  mutations,    \* history: the kinds of object the caller has mutated
  inst,         \* a Memory instance other than the exported one:
                \* collection -> key -> reference
  intact,       \* the exported memory still has its intervals property
  cleared       \* history: the instances clear() was called on, in order

dataVars == <<heap, mem, own, given, lastGet, loadPc, mutations, inst,
              intact, cleared>>

memVars == <<autoSave, timer, handles, armed, saving, saved, shutdownPc,
            startPc, memCalls, cancelled, stopped, thrown, dataVars, disk,
            trip>>

VARIABLES
  copy,         \* a Path built by new Path(...), beside the global one
  made,         \* number of branch objects created so far
  pathOp,       \* history: the latest Path operation and what it returned
  origin        \* the collections whose map is one object held by both
                \* Paths, and (history) whether copy was built from global

pathVars == <<copy, made, pathOp, origin>>

VARIABLES
  callbacks,    \* the ids of the bits set up with a callback
  bitRun,       \* the latest doBit call: its number, arguments and position
  ran           \* history: the callback invocations, as <<id, state>>

bitVars == <<callbacks, bitRun, ran>>

VARIABLES
  cnd,          \* a Conditions object: expressions, matches and captures by
                \* key, and whether the call that built it threw
  cndOp         \* history: the latest Conditions call and its arguments

condVars == <<cnd, cndOp>>

VARIABLES
  settings,     \* the Settings instance: options, config and updates
  assigned      \* history: the latest Settings call, and the values set by
                \* hand since the latest resetConfig, by key

setVars == <<settings, assigned>>

VARIABLES
  thought       \* the State of the latest received message, and the stage
                \* the orchestration is at

thoughtVars == <<thought>>

libVars == <<pathVars, bitVars, condVars, setVars, thoughtVars>>

mwVars == <<stack, phase, idx, settled, threw, done, isPending, promise,
            thenJob, outer, err, complete, pendingDone, log>>

\* What a piece does with (state, next, done) in its body.
\*   next      calls next()
\*   wrap      calls next(newDone), newDone runs and then calls the done it got
\*   wrapAsync calls next(newDone), newDone awaits I/O before calling that done
\*   done      calls done()
\*   skip      returns having called neither
\*   throw     throws (or returns a promise that rejects)
PieceActs == {"next", "wrap", "wrapAsync", "done", "skip", "throw"}

\* IPiece: a piece returns a value (async = FALSE) or a promise that settles
\* on a later turn of the event loop (async = TRUE).
IPiece == [act : PieceActs, async : BOOLEAN]

\* IComplete: the completion callback may return a value or a promise, and
\* may throw.
IComplete == [throws : BOOLEAN, async : BOOLEAN]

NoErr == [src |-> "none", state |-> FALSE, middleware |-> FALSE]

NoComplete == [throws |-> FALSE, async |-> FALSE]

\* An error as thrown by user code, before any annotation.
Thrown(src) == [src |-> src, state |-> FALSE, middleware |-> FALSE]

\* executePiece's catch block: err.state = b; err.middleware = this.type.
Annotate(e) == [e EXCEPT !.state = TRUE, !.middleware = TRUE]

\* No promise reaction is queued and no await continuation is ready: the
\* microtask queue is empty, so a timer, I/O completion or caller may run.
Quiescent ==
  /\ thenJob = "none"
  /\ ~(phase \in {"piece", "complete"} /\ settled)

\* resolve(b) / reject(err) settle the promise once; later calls are no-ops.
ResolveP(p) == IF p = "pending" THEN "resolved" ELSE p

RejectP(p) == IF p = "pending" THEN "rejected" ELSE p

\* The reaction queued when the promise settles: the .then callback on
\* fulfilment, the pass-through of the rejection otherwise.
JobAfter(p, q, tj) ==
  IF p = "pending" /\ q = "resolved" THEN "fulfil"
  ELSE IF p = "pending" /\ q = "rejected" THEN "reject"
  ELSE tj

IsAsyncWrapper(k) == stack[k].act = "wrapAsync"

\* Calling a done function. A done is a chain <<k1, k2, ...>> of wrappers
\* made by pieces k1, k2, ... around the original `() => resolve(b)` (the
\* empty chain). A synchronous wrapper runs and calls the done it wrapped;
\* an asynchronous one starts, and calls it after its own await.
\* Result: the wrappers started now, the chain left waiting (if any), and
\* whether resolve(b) was reached.
RECURSIVE CallDone(_)
CallDone(d) ==
  IF d = <<>> THEN [ran |-> <<>>, waits |-> <<>>, resolves |-> TRUE]
  ELSE IF IsAsyncWrapper(Head(d))
    THEN [ran |-> << <<"wrapper", Head(d)>> >>,
          waits |-> << Tail(d) >>,
          resolves |-> FALSE]
    ELSE LET r == CallDone(Tail(d))
         IN [ran |-> << <<"wrapper", Head(d)>> >> \o r.ran,
             waits |-> r.waits,
             resolves |-> r.resolves]

\* ------------------------------------------------------------------------
\* Middleware: operations
\* ------------------------------------------------------------------------

MwInit ==
  /\ stack = <<>>
  /\ phase = "idle"
  /\ idx = 0
  /\ settled = FALSE
  /\ threw = FALSE
  /\ done = <<>>
  /\ isPending = FALSE
  /\ promise = "none"
  /\ thenJob = "none"
  /\ outer = "none"
  /\ err = NoErr
  /\ complete = NoComplete
  /\ pendingDone = <<>>
  /\ log = <<>>

\* Middleware.register: push a piece.
register(piece) ==
  /\ Quiescent
  /\ Len(stack) < MaxStack
  /\ stack' = Append(stack, piece)
  /\ log' = Append(log, <<"register", Len(stack) + 1>>)
  /\ UNCHANGED <<phase, idx, settled, threw, done, isPending, promise,
                 thenJob, outer, err, complete, pendingDone>>
  /\ UNCHANGED <<lcVars, memVars, libVars>>

\* Middleware.execute, the synchronous part: build the promise, chain .then
\* on it and schedule reduceStack with process.nextTick.
execute(c) ==
  /\ phase = "idle"
  /\ phase' = "scheduled"
  /\ isPending' = TRUE
  /\ promise' = "pending"
  /\ outer' = "pending"
  /\ complete' = c
  /\ log' = Append(log, <<"execute", 0>>)
  /\ UNCHANGED <<stack, idx, settled, threw, done, thenJob, err, pendingDone>>
  /\ UNCHANGED <<lcVars, memVars, libVars>>

\* A cb that chains the new wrapper behind the earlier ones.
DoneAfterFifo(k, d) ==
  IF stack[k].act \in {"wrap", "wrapAsync"} THEN d \o <<k>> ELSE d

\* The done the cb of reduceStack leaves in place after piece k ran with
\* done d: next() keeps d, next(newDone) installs the wrapper around d.
DoneAfter(k, d) ==
  IF stack[k].act \in {"wrap", "wrapAsync"} THEN <<k>> \o d ELSE d

\* What piece k's call of done() does (only the "done" pieces call it).
PieceCall(k, d) ==
  IF stack[k].act = "done" THEN CallDone(d)
  ELSE [ran |-> <<>>, waits |-> <<>>, resolves |-> FALSE]

\* executePiece(done, piece, cb): run piece k with the current done.
executePiece(k) ==
  LET r == PieceCall(k, done)
      q == IF r.resolves THEN ResolveP(promise) ELSE promise
  IN /\ phase' = "piece"
     /\ idx' = k
     /\ settled' = ~stack[k].async
     /\ threw' = (stack[k].act = "throw")
     /\ done' = DoneAfter(k, done)
     /\ promise' = q
     /\ thenJob' = JobAfter(promise, q, thenJob)
     /\ pendingDone' = pendingDone \o r.waits
     /\ log' = log \o << <<"piece", k>> >> \o r.ran
                   \o (IF r.resolves THEN << <<"resolve", 0>> >> ELSE <<>>)
                   \o (IF stack[k].async THEN <<>> ELSE << <<"settled", k>> >>)
     /\ UNCHANGED <<stack, isPending, outer, err, complete>>

\* `await Promise.resolve(complete(b))`: call the completion callback.
callComplete ==
  /\ phase' = "complete"
  /\ settled' = ~complete.async
  /\ threw' = complete.throws
  /\ log' = Append(log, <<"complete", 0>>)
  /\ UNCHANGED <<stack, idx, done, isPending, promise, thenJob, outer, err,
                 complete, pendingDone>>

\* reduceStack returns without calling complete.
finish ==
  /\ phase' = "finished"
  /\ UNCHANGED <<stack, idx, settled, threw, done, isPending, promise,
                 thenJob, outer, err, complete, pendingDone, log>>

\* reduceStack leaving the loop without calling complete.
reduceFromNoComplete(k) ==
  IF k <= Len(stack) THEN executePiece(k) ELSE finish

\* The for-of loop of reduceStack from index k on: run the next piece, or
\* leave the loop and call complete if the promise is still pending.
reduceFrom(k) ==
  IF k <= Len(stack) THEN executePiece(k)
  ELSE IF isPending THEN callComplete
  ELSE finish

\* process.nextTick(() => reduceStack()): the stack starts on the next tick.
reduceStack ==
  /\ phase = "scheduled"
  /\ reduceFrom(1)
  /\ UNCHANGED <<lcVars, memVars, libVars>>

\* A piece's promise settles on a later turn of the event loop.
pieceSettles ==
  /\ Quiescent
  /\ phase = "piece"
  /\ ~settled
  /\ settled' = TRUE
  /\ log' = Append(log, <<"settled", idx>>)
  /\ UNCHANGED <<stack, phase, idx, threw, done, isPending, promise, thenJob,
                 outer, err, complete, pendingDone>>
  /\ UNCHANGED <<lcVars, memVars, libVars>>

\* A loop that moves on without awaiting what the piece returned.
afterPieceUnsettled ==
  /\ phase = "piece"
  /\ thenJob = "none"
  /\ ~threw
  /\ reduceFrom(idx + 1)
  /\ UNCHANGED <<lcVars, memVars, libVars>>

\* Continuation of `await executePiece(...)` when the piece did not throw:
\* the loop moves on.
afterPiece ==
  /\ phase = "piece"
  /\ settled
  /\ thenJob = "none"
  /\ ~threw
  /\ reduceFrom(idx + 1)
  /\ UNCHANGED <<lcVars, memVars, libVars>>

\* A piece threw: executePiece annotates and rethrows, reduceStack's catch
\* rejects the promise.
pieceThrew ==
  /\ phase = "piece"
  /\ settled
  /\ thenJob = "none"
  /\ threw
  /\ phase' = "finished"
  /\ promise' = RejectP(promise)
  /\ thenJob' = JobAfter(promise, promise', thenJob)
  /\ err' = IF promise = "pending" THEN Annotate(Thrown("piece")) ELSE err
  /\ log' = Append(log, <<"reject", 0>>)
  /\ UNCHANGED <<stack, idx, settled, threw, done, isPending, outer, complete,
                 pendingDone>>
  /\ UNCHANGED <<lcVars, memVars, libVars>>

\* complete's promise settles on a later turn of the event loop.
completeSettles ==
  /\ Quiescent
  /\ phase = "complete"
  /\ ~settled
  /\ settled' = TRUE
  /\ UNCHANGED <<stack, phase, idx, threw, done, isPending, promise, thenJob,
                 outer, err, complete, pendingDone, log>>
  /\ UNCHANGED <<lcVars, memVars, libVars>>

\* Continuation of `await Promise.resolve(complete(b))`: call the current
\* done. (The await on done()'s result is the last statement.)
afterComplete ==
  /\ phase = "complete"
  /\ settled
  /\ thenJob = "none"
  /\ ~threw
  /\ LET r == CallDone(done)
         q == IF r.resolves THEN ResolveP(promise) ELSE promise
     IN /\ phase' = "finished"
        /\ promise' = q
        /\ thenJob' = JobAfter(promise, q, thenJob)
        /\ pendingDone' = pendingDone \o r.waits
        /\ log' = log \o << <<"completed", 0>> >> \o r.ran
                      \o (IF r.resolves THEN << <<"resolve", 0>> >> ELSE <<>>)
  /\ UNCHANGED <<stack, idx, settled, threw, done, isPending, outer, err,
                 complete>>
  /\ UNCHANGED <<lcVars, memVars, libVars>>

\* complete threw: reduceStack's catch rejects with the error as thrown.
completeThrew ==
  /\ phase = "complete"
  /\ settled
  /\ thenJob = "none"
  /\ threw
  /\ phase' = "finished"
  /\ promise' = RejectP(promise)
  /\ thenJob' = JobAfter(promise, promise', thenJob)
  /\ err' = IF promise = "pending" THEN Thrown("complete") ELSE err
  /\ log' = Append(log, <<"reject", 0>>)
  /\ UNCHANGED <<stack, idx, settled, threw, done, isPending, outer, complete,
                 pendingDone>>
  /\ UNCHANGED <<lcVars, memVars, libVars>>

Remove(s, i) == SubSeq(s, 1, i - 1) \o SubSeq(s, i + 1, Len(s))

\* An asynchronous done wrapper finishes its await and calls the done it
\* wrapped.
wrapperContinues(i) ==
  /\ Quiescent
  /\ i \in 1..Len(pendingDone)
  /\ LET r == CallDone(pendingDone[i])
         q == IF r.resolves THEN ResolveP(promise) ELSE promise
     IN /\ promise' = q
        /\ thenJob' = JobAfter(promise, q, thenJob)
        /\ pendingDone' = Remove(pendingDone, i) \o r.waits
        /\ log' = log \o r.ran
                      \o (IF r.resolves THEN << <<"resolve", 0>> >> ELSE <<>>)
  /\ UNCHANGED <<stack, phase, idx, settled, threw, done, isPending, outer,
                 err, complete>>
  /\ UNCHANGED <<lcVars, memVars, libVars>>

\* The reaction on the promise: `.then(() => { isPending = false; return b })`
\* on fulfilment; a rejection passes through to the returned promise.
thenCallback ==
  /\ thenJob # "none"
  /\ thenJob' = "none"
  /\ isPending' = IF thenJob = "fulfil" THEN FALSE ELSE isPending
  /\ outer' = IF thenJob = "fulfil" THEN "resolved" ELSE "rejected"
  /\ UNCHANGED <<stack, phase, idx, settled, threw, done, promise, err,
                 complete, pendingDone, log>>
  /\ UNCHANGED <<lcVars, memVars, libVars>>

\* A caller registers some piece.
registerAny == \E p \in IPiece : register(p)

\* A caller executes the middleware with some completion callback.
executeAny == \E c \in IComplete : execute(c)

\* Some waiting asynchronous done wrapper continues.
wrapperContinuesAny == \E i \in 1..Len(pendingDone) : wrapperContinues(i)

MwNext ==
  \/ registerAny
  \/ executeAny
  \/ reduceStack
  \/ pieceSettles
  \/ afterPiece
  \/ pieceThrew
  \/ completeSettles
  \/ afterComplete
  \/ completeThrew
  \/ wrapperContinuesAny
  \/ thenCallback

\* ------------------------------------------------------------------------
\* Lifecycle: state and helpers
\* ------------------------------------------------------------------------

\* The keys of the status index.
Statuses == {"waiting", "loading", "loaded", "starting", "started", "shutdown"}

\* One activation of an async lifecycle function, suspended at an await.
\*   fn      the function
\*   pc      the await it is suspended at
\*   exit    shutdown's exit argument
\*   entry   shutdown's `const status = getStatus()`
\*   reached history: the status shutdown waits for was set since it began
Frame(fn, pc) ==
  [fn |-> fn, pc |-> pc, exit |-> 0, entry |-> "none", reached |-> FALSE]

\* Awaits whose continuation is a promise reaction (a callee returned, an
\* event listener resolved the awaited promise).
MicroPcs == {"afterReset", "afterLoad", "afterShutdown", "catch", "released"}

\* Awaits on eventDelay (setImmediate).
DelayPcs == {"delay"}

\* Awaits on an event that has not been emitted yet.
WaitPcs == {"waitLoaded", "waitStarted"}

\* shutdown's awaits from the first tear-down call on.
TeardownPcs == {"memory", "adapters", "server", "delay"}

\* A shutdown that goes straight to server.shutdown().
shutdownServerFirst(exit, st) ==
  IF st = "shutdown" THEN <<>>
  ELSE << [fn |-> "shutdown",
           pc |-> IF st = "loading" THEN "waitLoaded"
                  ELSE IF st = "starting" THEN "waitStarted"
                  ELSE "server",
           exit |-> exit, entry |-> st, reached |-> FALSE] >>

\* shutdown(exit), up to its first await. Returns at once when the status
\* is already shutdown; listens for loaded / started when loading /
\* starting; otherwise calls memory.shutdown().
shutdown(exit, st) ==
  IF st = "shutdown" THEN <<>>
  ELSE << [fn |-> "shutdown",
           pc |-> IF st = "loading" THEN "waitLoaded"
                  ELSE IF st = "starting" THEN "waitStarted"
                  ELSE "memory",
           exit |-> exit, entry |-> st, reached |-> FALSE] >>

\* reset's try block and catch: unload adapters and middlewares, reset the
\* global path and the settings; on an exception call shutdown(1).
resetBody(ok, st) ==
  IF ok THEN << Frame("reset", "delay") >>
  ELSE shutdown(1, st) \o << Frame("reset", "catch") >>

\* reset(), up to its first await.
reset(ok, st) ==
  IF st # "shutdown" THEN shutdown(0, st) \o << Frame("reset", "afterShutdown") >>
  ELSE resetBody(ok, st)

\* load after setStatus('loading'): the components load, then eventDelay;
\* on an exception shutdown(1) is called (the status is loading).
loadBody(ok) ==
  IF ok THEN << Frame("load", "delay") >>
  ELSE shutdown(1, "loading") \o << Frame("load", "catch") >>

\* load(), up to its first await: frames pushed and the status left.
load(ok, st) ==
  IF st # "waiting"
    THEN [fr |-> reset(ok, st) \o << Frame("load", "afterReset") >>, st |-> st]
    ELSE [fr |-> loadBody(ok), st |-> "loading"]

\* start(), up to its first await.
start(ok, st) ==
  IF st # "loaded"
    THEN [fr |-> load(ok, st).fr \o << Frame("start", "afterLoad") >>,
          st |-> load(ok, st).st]
    ELSE [fr |-> << Frame("start", "server") >>, st |-> "starting"]

\* A pause that goes through reset() on its way.
pauseReloads(st) == reset(TRUE, st) \o << Frame("pause", "afterShutdown") >>

\* pause(), up to its first await.
pause(st) == shutdown(0, st) \o << Frame("pause", "afterShutdown") >>

\* start's catch block: shutdown(1), then on to eventDelay.
startCatch(st) == shutdown(1, st) \o << Frame("start", "catch") >>

\* The components (server, adapters, memory) are collaborators: a call of
\* one is an await whose completion may come at any time. Their load and
\* start calls may throw or reject; their shutdown calls are taken to return.

\* The outcome of one continuation.
Cont(fr, st, emit, exit) == [fr |-> fr, st |-> st, emit |-> emit, exit |-> exit]

\* The continuation of frame f, from its await to the next one: the frames
\* that replace f (none when it returns), the status it leaves, the event it
\* emits and whether it exits the process. `ok` is the outcome of the
\* component call involved (FALSE: it throws or rejects).
Continue(f, ok, st) ==
  CASE f.fn = "load" /\ f.pc = "afterReset" -> Cont(loadBody(ok), "loading", "none", FALSE)
    [] f.fn = "load" /\ f.pc = "delay" -> Cont(<<>>, "loaded", "loaded", FALSE)
    [] f.fn = "load" /\ f.pc = "catch" -> Cont(<<>>, st, "none", FALSE)
    [] f.fn = "start" /\ f.pc = "afterLoad" ->
         Cont(<< Frame("start", "server") >>, "starting", "none", FALSE)
    [] f.fn = "start" /\ f.pc = "server" ->
         Cont(IF ok THEN << Frame("start", "adapters") >> ELSE startCatch(st),
              st, "none", FALSE)
    [] f.fn = "start" /\ f.pc = "adapters" ->
         Cont(IF ok THEN << Frame("start", "memory") >> ELSE startCatch(st),
              st, "none", FALSE)
    [] f.fn = "start" /\ f.pc = "memory" ->
         Cont(IF ok THEN << Frame("start", "delay") >> ELSE startCatch(st),
              st, "none", FALSE)
    [] f.fn = "start" /\ f.pc = "catch" ->
         Cont(<< Frame("start", "delay") >>, st, "none", FALSE)
    [] f.fn = "start" /\ f.pc = "delay" -> Cont(<<>>, "started", "started", FALSE)
    [] f.fn = "shutdown" /\ f.pc = "released" ->
         Cont(<< [f EXCEPT !.pc = "memory"] >>, st, "none", FALSE)
    [] f.fn = "shutdown" /\ f.pc = "memory" ->
         Cont(<< [f EXCEPT !.pc = "adapters"] >>, st, "none", FALSE)
    [] f.fn = "shutdown" /\ f.pc = "adapters" ->
         Cont(<< [f EXCEPT !.pc = "server"] >>, st, "none", FALSE)
    [] f.fn = "shutdown" /\ f.pc = "server" ->
         Cont(<< [f EXCEPT !.pc = "delay"] >>, st, "none", FALSE)
    [] f.fn = "shutdown" /\ f.pc = "delay" ->
         Cont(<<>>, "shutdown", "shutdown", f.exit # 0)
    [] f.fn = "pause" /\ f.pc = "afterShutdown" ->
         Cont(<< Frame("pause", "delay") >>, st, "none", FALSE)
    [] f.fn = "pause" /\ f.pc = "delay" -> Cont(<<>>, "loaded", "paused", FALSE)
    [] f.fn = "reset" /\ f.pc = "afterShutdown" ->
         Cont(resetBody(ok, st), st, "none", FALSE)
    [] f.fn = "reset" /\ f.pc = "catch" ->
         Cont(<< Frame("reset", "delay") >>, st, "none", FALSE)
    [] f.fn = "reset" /\ f.pc = "delay" -> Cont(<<>>, "waiting", "waiting", FALSE)

\* The listener a waiting shutdown registered: `() => resolve()` on the
\* event it waits for.
Released(f, emit) ==
  IF \/ f.pc = "waitLoaded" /\ emit = "loaded"
     \/ f.pc = "waitStarted" /\ emit = "started"
  THEN [f EXCEPT !.pc = "released"] ELSE f

\* History kept on a shutdown frame: the status it waits for has been set.
Noted(f, st) ==
  IF \/ f.entry = "loading" /\ st = "loaded"
     \/ f.entry = "starting" /\ st = "started"
  THEN [f EXCEPT !.reached = TRUE] ELSE f

\* What setStatus(st) followed by events.emit(emit) does to a call stack
\* other than the running one.
Heard(s, st, emit) == << Released(Noted(Head(s), st), emit) >> \o Tail(s)

\* The calls in flight after call t ran: its stack replaced by ns (or
\* dropped when it returned), the others hearing the status and the event.
RunTask(ts, t, ns, st, emit) ==
  [i \in (IF ns = <<>> THEN DOMAIN ts \ {t} ELSE DOMAIN ts \cup {t}) |->
     IF i = t THEN ns ELSE Heard(ts[i], st, emit)]

\* The members of queue q that satisfy P, in queue order.
RECURSIVE Filter(_, _)
Filter(q, keep) ==
  IF q = <<>> THEN <<>>
  ELSE (IF Head(q) \in keep THEN << Head(q) >> ELSE <<>>) \o Filter(Tail(q), keep)

\* The calls whose listener the event releases.
Woken(ts, emit) ==
  {i \in DOMAIN ts : Released(Head(ts[i]), emit) # Head(ts[i])}

\* The queue q of calls after call t ran and suspended at an await of the
\* kind pcs: t joins the queue.
Joined(q, t, ns, pcs) ==
  IF ns # <<>> /\ Head(ns).pc \in pcs THEN Append(q, t) ELSE q

\* The queue without call t.
Without(q, t) == Filter(q, {q[i] : i \in 1..Len(q)} \ {t})

\* The top continuation of call t can run now. Promise reactions run in the
\* order they were queued; a setImmediate callback runs when no reaction is
\* queued, in the order the callbacks were scheduled; a call waiting on an
\* event does not run; the completion of a component call may come at any
\* time.
Runnable(t) ==
  /\ ~exited
  /\ Head(tasks[t]).pc \notin WaitPcs
  /\ Head(tasks[t]).pc \in MicroPcs => Head(micro) = t
  /\ Head(tasks[t]).pc \in DelayPcs => (micro = <<>> /\ Head(immediates) = t)

\* ------------------------------------------------------------------------
\* Registries: adapter slots, Middlewares, the global Path, bits
\* ------------------------------------------------------------------------

\* The adapter slots.
AdapterTypes == {"message", "nlu", "storage"}

\* The slots the settings name an adapter for: message defaults to the
\* shell adapter, nlu and storage are optional.
Configured == {"message", "storage"}

\* adapters.load(): every slot the settings name gets its adapter.
adaptersLoad(a) == a \cup Configured

\* adapters.unload(): every slot is emptied.
adaptersUnload(a) == {}

\* The stage types a Middleware stack is loaded for.
middlewareTypes ==
  {"hear", "listen", "understand", "serve", "act", "respond", "remember"}

\* Middlewares.load: a new empty Middleware for every type that has none.
MiddlewaresLoad(m) ==
  [t \in DOMAIN m \cup middlewareTypes |-> IF t \in DOMAIN m THEN m[t] ELSE <<>>]

\* Middlewares.unload: delete the Middleware of every type.
MiddlewaresUnload(m) == [t \in DOMAIN m \ middlewareTypes |-> m[t]]

\* middleware[type](piece): create the Middleware when missing, register.
middleware(m, type, piece) ==
  [t \in DOMAIN m \cup {type} |->
     IF t = type
       THEN Append(IF type \in DOMAIN m THEN m[type] ELSE <<>>, piece)
       ELSE m[t]]

\* The branch collections of a Path.
Collections == {"listen", "understand", "serve", "act"}

\* A map with no key.
NoKeys == [k \in {} |-> FALSE]

\* new Path(): every collection empty.
Path == [c \in Collections |-> NoKeys]

\* An add that keeps the branch already under the id.
PathAddKeeping(p, branch, collection) ==
  [p EXCEPT ![collection] =
     [k \in DOMAIN @ \cup {branch.id} |-> IF k \in DOMAIN @ THEN @[k] ELSE branch]]

\* Path.add: this[collection][branch.id] = branch.
PathAdd(p, branch, collection) ==
  [p EXCEPT ![collection] =
     [k \in DOMAIN @ \cup {branch.id} |-> IF k = branch.id THEN branch ELSE @[k]]]

\* A reset that empties serve as well.
PathResetAll(p) == Path

\* Path.reset: listen, understand and act become empty maps.
PathReset(p) ==
  [p EXCEPT !["listen"] = NoKeys, !["understand"] = NoKeys, !["act"] = NoKeys]

\* setupBit: bits[bit.id] = bit.
setupBit(b, id) == b \cup {id}

\* The try block a lifecycle function reaches in the segment that begins
\* with its call, by the status it reads: load's (middlewares.load,
\* server.load, adapters.load), reset's (adapters.unload,
\* middlewares.unload, global.reset, settings.resetConfig), or neither.
CallBody(fn, st) ==
  CASE fn = "reset" -> IF st = "shutdown" THEN "reset" ELSE "none"
    [] fn = "load" ->
         IF st = "waiting" THEN "load"
         ELSE IF st = "shutdown" THEN "reset" ELSE "none"
    [] fn = "start" ->
         IF st = "waiting" THEN "load"
         ELSE IF st = "shutdown" THEN "reset" ELSE "none"
    [] OTHER -> "none"

\* The try block the continuation of frame f runs.
ContBody(f) ==
  IF f.fn = "load" /\ f.pc = "afterReset" THEN "load"
  ELSE IF f.fn = "reset" /\ f.pc = "afterShutdown" THEN "reset"
  ELSE "none"

\* The registries after a try block. In load's, middlewares.load comes
\* first and does not throw, and adapters.load is reached and returns only
\* if nothing throws. In reset's, a throw comes from adapters.unload, before
\* anything is cleared, or (late) from settings.resetConfig, after.
Registries(body, ok, late) ==
  /\ adapters' =
       IF body = "load" /\ ok THEN adaptersLoad(adapters)
       ELSE IF body = "reset" /\ (ok \/ late) THEN adaptersUnload(adapters)
       ELSE adapters
  /\ middlewares' =
       IF body = "load" THEN MiddlewaresLoad(middlewares)
       ELSE IF body = "reset" /\ (ok \/ late) THEN MiddlewaresUnload(middlewares)
       ELSE middlewares
  /\ global' =
       IF body = "reset" /\ (ok \/ late) THEN PathReset(global) ELSE global
  /\ UNCHANGED <<bits, regs>>

\* The registries a reset or a reload would change.
Snapshot ==
  [adapters |-> adapters, middlewares |-> middlewares, global |-> global]

\* No pause is being followed.
NotPaused ==
  [phase |-> "none",
   snap |-> [adapters |-> {}, middlewares |-> NoKeys, global |-> Path],
   path |-> <<>>]

\* History: the statuses set since the pause that is being followed.
Followed(p, st) ==
  IF p.phase # "none" /\ st # status THEN [p EXCEPT !.path = Append(@, st)]
  ELSE p

\* ------------------------------------------------------------------------
\* Lifecycle: operations
\* ------------------------------------------------------------------------

LcInit ==
  /\ status = "waiting"
  /\ tasks = <<>>
  /\ micro = <<>>
  /\ immediates = <<>>
  /\ listeners = <<>>
  /\ exited = FALSE
  /\ calls = 0
  /\ shutdownWhileLoading = FALSE
  /\ adapters = {}
  /\ middlewares = NoKeys
  /\ global = Path
  /\ bits = {}
  /\ regs = 0
  /\ paused = NotPaused

\* Call t runs one synchronous segment that leaves it with the stack ns,
\* the status st, and emits the event emit: the effect on the calls in
\* flight and on the event loop's queues.
Ran(t, ns, st, emit) ==
  /\ status' = st
  /\ tasks' = RunTask(tasks, t, ns, st, emit)
  /\ micro' = Joined(Without(micro, t) \o Filter(listeners, Woken(tasks, emit)),
                     t, ns, MicroPcs)
  /\ immediates' = Joined(Without(immediates, t), t, ns, DelayPcs)
  /\ listeners' = Joined(Filter(listeners, DOMAIN tasks \ Woken(tasks, emit)),
                         t, ns, WaitPcs)

\* An outside caller calls a lifecycle function: it runs up to its first
\* await, leaving the frames fr and the status st.
Called(fr, st) ==
  /\ ~exited
  /\ calls < MaxCalls
  /\ calls' = calls + 1
  /\ Ran(calls + 1, fr, st, "none")
  /\ UNCHANGED exited
  /\ UNCHANGED <<mwVars, memVars, libVars>>

callLoad ==
  /\ \E ok, late \in BOOLEAN :
       /\ Called(load(ok, status).fr, load(ok, status).st)
       /\ Registries(CallBody("load", status), ok, late)
  /\ shutdownWhileLoading' = FALSE
  /\ paused' = NotPaused

callStart ==
  /\ \E ok, late \in BOOLEAN :
       /\ Called(start(ok, status).fr, start(ok, status).st)
       /\ Registries(CallBody("start", status), ok, late)
  /\ shutdownWhileLoading' = FALSE
  /\ paused' = IF paused.phase = "pausing" /\ DOMAIN tasks = {}
                 THEN Followed([paused EXCEPT !.phase = "resuming"], status')
                 ELSE NotPaused

callShutdown ==
  /\ Called(shutdown(0, status), status)
  /\ shutdownWhileLoading' = (status = "loading")
  /\ paused' = NotPaused
  /\ UNCHANGED <<adapters, middlewares, global, bits, regs>>

callPause ==
  /\ Called(pause(status), status)
  /\ shutdownWhileLoading' = FALSE
  /\ paused' = IF status = "started" /\ DOMAIN tasks = {}
                 THEN [phase |-> "pausing", snap |-> Snapshot,
                       path |-> << status >>]
                 ELSE NotPaused
  /\ UNCHANGED <<adapters, middlewares, global, bits, regs>>

callReset ==
  /\ \E ok, late \in BOOLEAN :
       /\ Called(reset(ok, status), status)
       /\ Registries(CallBody("reset", status), ok, late)
  /\ shutdownWhileLoading' = FALSE
  /\ paused' = NotPaused

\* The continuation of call t runs from its await to the next one.
resume(t) ==
  /\ t \in DOMAIN tasks
  /\ Runnable(t)
  /\ \E ok, late \in BOOLEAN :
       LET r == Continue(Head(tasks[t]), ok, status)
       IN /\ Ran(t, r.fr \o Tail(tasks[t]), r.st, r.emit)
          /\ exited' = r.exit
          /\ Registries(ContBody(Head(tasks[t])), ok, late)
  /\ paused' = Followed(paused, status')
  /\ UNCHANGED <<calls, shutdownWhileLoading>>
  /\ UNCHANGED <<mwVars, memVars, libVars>>

\* Memory.set ends with events.emit('loaded', this) on the shared emitter.
memorySet ==
  /\ ~exited
  /\ tasks' = [i \in DOMAIN tasks |-> Heard(tasks[i], status, "loaded")]
  /\ micro' = micro \o Filter(listeners, Woken(tasks, "loaded"))
  /\ listeners' = Filter(listeners, DOMAIN tasks \ Woken(tasks, "loaded"))
  /\ UNCHANGED <<status, immediates, exited, calls, shutdownWhileLoading>>
  /\ UNCHANGED <<adapters, middlewares, global, bits, regs, paused>>
  /\ UNCHANGED <<mwVars, memVars, libVars>>

\* Some call in flight continues.
resumeAny == \E t \in DOMAIN tasks : resume(t)

\* What outside callers register: pieces on one stage type, one branch
\* on a collection Path.reset empties or on serve, one bit id.
Pieces == {"piece"}

RegTypes == {"hear"}

RegCollections == {"listen", "serve"}

Branches == [id : {"branch"}, force : {FALSE}]

BitIds == {"bit"}

\* An outside caller makes a registration call; nothing in the registrars
\* reads the status.
Registered ==
  /\ ~exited
  /\ regs < MaxRegs
  /\ regs' = regs + 1
  /\ paused' = NotPaused
  /\ UNCHANGED <<status, tasks, micro, immediates, listeners, exited, calls,
                 shutdownWhileLoading, adapters>>
  /\ UNCHANGED <<mwVars, memVars, pathVars, bitRun, ran, condVars, setVars, thoughtVars>>

\* middleware.<type>(piece)
callMiddleware ==
  /\ Registered
  /\ \E type \in RegTypes, piece \in Pieces :
       middlewares' = middleware(middlewares, type, piece)
  /\ UNCHANGED <<global, bits, callbacks>>

\* global.add(branch, collection), which every Path factory ends with
callAdd ==
  /\ Registered
  /\ \E branch \in Branches, collection \in RegCollections :
       global' = PathAdd(global, branch, collection)
  /\ UNCHANGED <<middlewares, bits, callbacks>>

\* setupBit(options), the options with or without a callback
callSetupBit ==
  /\ Registered
  /\ \E id \in BitIds, callback \in BOOLEAN :
       /\ bits' = setupBit(bits, id)
       /\ callbacks' = IF callback THEN callbacks \cup {id}
                       ELSE callbacks \ {id}
  /\ UNCHANGED <<middlewares, global>>

LcNext ==
  \/ callLoad
  \/ callStart
  \/ callShutdown
  \/ callPause
  \/ callReset
  \/ resumeAny
  \/ memorySet

\* The lifecycle with registration calls made at any time.
RegNext ==
  \/ callLoad
  \/ callStart
  \/ callShutdown
  \/ callPause
  \/ callReset
  \/ resumeAny
  \/ callMiddleware
  \/ callAdd
  \/ callSetupBit

\* ------------------------------------------------------------------------
\* Memory: the collections
\* ------------------------------------------------------------------------

\* No object: an absent property.
NoRef == 0

\* The scalar contents of an object.
Vals == {"x", "y"}

\* The content of the object at r, nested objects included.
RECURSIVE Deep(_, _)
Deep(h, r) ==
  [val |-> h[r].val,
   child |-> IF h[r].child = NoRef THEN <<>> ELSE << Deep(h, h[r].child) >>]

\* The heap with new objects holding content d; the outermost is the last.
RECURSIVE Alloc(_, _)
Alloc(h, d) ==
  IF d.child = <<>> THEN Append(h, [val |-> d.val, child |-> NoRef])
  ELSE LET h1 == Alloc(h, d.child[1])
       IN Append(h1, [val |-> d.val, child |-> Len(h1)])

\* The number of objects content d takes.
RECURSIVE Size(_)
Size(d) == IF d.child = <<>> THEN 1 ELSE 1 + Size(d.child[1])

\* util.clone(value): a deep copy, sharing no object with the value.
clone(h, r) == Alloc(h, Deep(h, r))

\* The objects reachable from the references in rs.
RECURSIVE Reach(_, _)
Reach(h, rs) ==
  LET more == rs \cup {h[r].child : r \in {q \in rs : h[q].child # NoRef}}
  IN IF more = rs THEN rs ELSE Reach(h, more)

\* new Memory(): users, rooms and private, each empty.
Memory == [c \in {"users", "rooms", "private"} |-> NoKeys]

\* m with key k of collection c bound to v (the collection created if
\* missing).
Bound(m, c, k, v) ==
  [x \in DOMAIN m \cup {c} |->
     IF x # c THEN m[x]
     ELSE [y \in (IF c \in DOMAIN m THEN DOMAIN m[c] ELSE {}) \cup {k} |->
             IF y = k THEN v ELSE m[c][y]]]

\* The contents of every collection, as a get of each key would show them
\* and as the storage adapter serialises them.
View(m, h) == [c \in DOMAIN m |-> [k \in DOMAIN m[c] |-> Deep(h, m[c][k])]]

\* No get() to follow.
NoGet == [key |-> "", collection |-> "", ref |-> NoRef]

\* No save() then load() to follow.
NoTrip == [phase |-> "none", before |-> View(Memory, <<>>)]

\* The users, rooms and private collections of a view.
Known(v) == [c \in DOMAIN Memory \cap DOMAIN v |-> v[c]]

\* What the storage adapter may hold from an earlier run.
Disks ==
  {View(Memory, <<>>),
   [c \in DOMAIN Memory |->
      IF c = "private" THEN [k \in {"a"} |-> [val |-> "x", child |-> <<>>]]
      ELSE NoKeys]}

\* A set that keeps the caller's object itself.
setByReference(key, value, collection) ==
  /\ heap' = heap
  /\ mem' = Bound(mem, collection, key, value)

\* Memory.set: data = util.clone(value); this[collection][key] = data.
set(key, value, collection) ==
  /\ heap' = clone(heap, value)
  /\ mem' = Bound(mem, collection, key, Len(heap'))

\* Memory.load after loadMemory returned `loaded`: for each key of loaded,
\* this[key] = Object.assign({}, this[key], loaded[key]). The entries es
\* are taken one by one; result: the memory object and the heap.
RECURSIVE Assigned(_, _, _, _)
Assigned(m, h, loaded, es) ==
  IF es = {} THEN [mem |-> m, heap |-> h]
  ELSE LET e == CHOOSE x \in es : TRUE
           h1 == Alloc(h, loaded[e[1]][e[2]])
       IN Assigned(Bound(m, e[1], e[2], Len(h1)), h1, loaded, es \ {e})

\* A load that replaces each loaded collection: this[key] = loaded[key].
LoadedReplacing(m, h, loaded) ==
  LET entries ==
        UNION {{<<c, k>> : k \in DOMAIN loaded[c]} : c \in DOMAIN loaded}
      r == Assigned([c \in DOMAIN m |->
                       IF c \in DOMAIN loaded THEN NoKeys ELSE m[c]],
                    h, loaded, entries)
  IN [mem |-> [c \in DOMAIN r.mem \cup DOMAIN loaded |->
                 IF c \in DOMAIN r.mem THEN r.mem[c] ELSE NoKeys],
      heap |-> r.heap]

\* The collections of loaded that hold no entry still become objects.
Loaded(m, h, loaded) ==
  LET entries ==
        UNION {{<<c, k>> : k \in DOMAIN loaded[c]} : c \in DOMAIN loaded}
      r == Assigned(m, h, loaded, entries)
  IN [mem |-> [c \in DOMAIN r.mem \cup DOMAIN loaded |->
                 IF c \in DOMAIN r.mem THEN r.mem[c] ELSE NoKeys],
      heap |-> r.heap]

\* ------------------------------------------------------------------------
\* Memory: the save interval
\* ------------------------------------------------------------------------

\* intervals.save.timer before any setInterval: undefined.
NoTimer == 0

MemInit ==
  /\ autoSave = TRUE
  /\ timer = NoTimer
  /\ handles = 0
  /\ armed = {}
  /\ saving = {}
  /\ saved = 0
  /\ shutdownPc = "none"
  /\ startPc = "none"
  /\ memCalls = 0
  /\ cancelled = FALSE
  /\ stopped = "no"
  /\ thrown = "none"
  /\ heap = <<>>
  /\ mem = Memory
  /\ disk = View(Memory, <<>>)
  /\ own = {}
  /\ given = {}
  /\ lastGet = NoGet
  /\ loadPc = "none"
  /\ trip = NoTrip
  /\ mutations = {}
  /\ inst = Memory
  /\ intact = TRUE
  /\ cleared = <<>>

\* No continuation of Memory.shutdown or Memory.start is queued as a
\* promise reaction: a timer, an I/O completion or a caller may run.
MemQuiet == shutdownPc # "afterSave" /\ startPc # "afterLoad"

\* Memory.setSaveInterval: with a storage adapter and autoSave, a new
\* interval is created and its handle kept in intervals.save.timer; the
\* handle kept before is overwritten, not cleared. With the intervals
\* property deleted, this.intervals.save raises a TypeError before
\* setInterval is called.
setSaveInterval ==
  IF "storage" \in adapters /\ autoSave
    THEN IF intact
           THEN /\ timer' = handles + 1
                /\ handles' = handles + 1
                /\ armed' = armed \cup {handles + 1}
                /\ UNCHANGED thrown
           ELSE /\ thrown' = "setSaveInterval"
                /\ UNCHANGED <<timer, handles, armed>>
    ELSE UNCHANGED <<timer, handles, armed, thrown>>

\* Memory.clearSaveInterval: clearInterval on the handle kept, if any; the
\* handle stays in intervals.save.timer. With the intervals property
\* deleted, this.intervals.save raises a TypeError and nothing is cleared.
clearSaveInterval ==
  /\ armed' = IF intact /\ timer # NoTimer THEN armed \ {timer} ELSE armed
  /\ thrown' = IF intact THEN thrown ELSE "clearSaveInterval"
  /\ UNCHANGED <<timer, handles>>

\* A save whose saveMemory call leaves the storage as it was.
saveUnwritten(by) ==
  IF "storage" \notin adapters
    THEN UNCHANGED <<timer, handles, armed, saving, saved, disk, thrown>>
    ELSE /\ saved < MaxSaves
         /\ clearSaveInterval
         /\ IF intact
              THEN /\ disk' = disk
                   /\ saving' = saving \cup {[id |-> saved + 1, by |-> by,
                                               cleared |-> timer \in armed]}
                   /\ saved' = saved + 1
              ELSE UNCHANGED <<saving, saved, disk>>

\* Memory.save up to its await, called by `by`: return at once without a
\* storage adapter; else clear the interval and call storage.saveMemory;
\* when clearSaveInterval throws, save rejects before that call.
save(by) ==
  IF "storage" \notin adapters
    THEN UNCHANGED <<timer, handles, armed, saving, saved, disk, thrown>>
    ELSE /\ saved < MaxSaves
         /\ clearSaveInterval
         /\ IF intact
              THEN /\ disk' = View(mem, heap)
                   /\ saving' = saving \cup {[id |-> saved + 1, by |-> by,
                                               cleared |-> timer \in armed]}
                   /\ saved' = saved + 1
              ELSE UNCHANGED <<saving, saved, disk>>

\* An outside caller calls a Memory method.
MemCalled ==
  /\ MemQuiet
  /\ memCalls < MaxMemCalls
  /\ memCalls' = memCalls + 1
  /\ UNCHANGED <<autoSave, dataVars, lcVars, mwVars, libVars>>

\* memory.setSaveInterval()
callSetSaveInterval ==
  /\ MemCalled
  /\ setSaveInterval
  /\ cancelled' = FALSE
  /\ stopped' = "no"
  /\ UNCHANGED <<saving, saved, shutdownPc, startPc, disk, trip>>

\* memory.clearSaveInterval()
callClearSaveInterval ==
  /\ MemCalled
  /\ clearSaveInterval
  /\ cancelled' = TRUE
  /\ stopped' = "no"
  /\ UNCHANGED <<saving, saved, shutdownPc, startPc, disk, trip>>

\* memory.save()
callSave ==
  /\ MemCalled
  /\ save("caller")
  /\ cancelled' = FALSE
  /\ stopped' = "no"
  /\ trip' = IF "storage" \in adapters /\ intact
               THEN [phase |-> "saved", before |-> View(mem, heap)]
               ELSE NoTrip
  /\ UNCHANGED <<shutdownPc, startPc>>

\* An interval fires: () => this.save()
timerFires ==
  /\ MemQuiet
  /\ armed # {}
  /\ save("timer")
  /\ UNCHANGED <<autoSave, shutdownPc, startPc, memCalls, cancelled, stopped>>
  /\ UNCHANGED <<dataVars, trip>>
  /\ UNCHANGED <<lcVars, mwVars, libVars>>

\* memory.shutdown() up to its await on save(); it rejects when save()
\* does.
callMemoryShutdown ==
  /\ MemCalled
  /\ shutdownPc \in {"none", "done", "failed"}
  /\ save("shutdown")
  /\ shutdownPc' = IF "storage" \notin adapters THEN "afterSave"
                   ELSE IF intact THEN "saving" ELSE "failed"
  /\ cancelled' = FALSE
  /\ stopped' = "closing"
  /\ UNCHANGED <<startPc, trip>>

\* memory.start() up to its await on load(): return at once without a
\* storage adapter, else load() calls storage.loadMemory.
callMemoryStart ==
  /\ MemCalled
  /\ startPc \in {"none", "failed"}
  /\ startPc' = IF "storage" \in adapters THEN "loading" ELSE startPc
  /\ cancelled' = FALSE
  /\ stopped' = "no"
  /\ UNCHANGED <<timer, handles, armed, saving, saved, shutdownPc, disk, trip,
                 thrown>>

\* storage.saveMemory of save call c settles. Resolved: save goes on to
\* setSaveInterval and returns, or rejects if that throws. Rejected: save
\* rejects at the await. The shutdown() awaiting this save continues, or
\* rejects with it.
saveMemorySettles(c, ok) ==
  /\ MemQuiet
  /\ c \in saving
  /\ saving' = saving \ {c}
  /\ IF ok THEN setSaveInterval ELSE UNCHANGED <<timer, handles, armed, thrown>>
  /\ shutdownPc' = IF c.by # "shutdown" THEN shutdownPc
                     ELSE IF ok /\ (intact \/ ~autoSave) THEN "afterSave"
                     ELSE "failed"
  /\ UNCHANGED <<autoSave, saved, startPc, memCalls, cancelled, stopped>>
  /\ UNCHANGED <<dataVars, disk, trip>>
  /\ UNCHANGED <<lcVars, mwVars, libVars>>

\* shutdown after `await this.save()`: clearSaveInterval, and it is done,
\* or it rejects if that throws.
shutdownContinues ==
  /\ shutdownPc = "afterSave"
  /\ clearSaveInterval
  /\ shutdownPc' = IF intact THEN "done" ELSE "failed"
  /\ stopped' = IF ~intact THEN stopped
                ELSE IF stopped = "closing" THEN "yes" ELSE "no"
  /\ UNCHANGED <<autoSave, saving, saved, startPc, memCalls, cancelled>>
  /\ UNCHANGED <<dataVars, disk, trip>>
  /\ UNCHANGED <<lcVars, mwVars, libVars>>

\* Memory.load's continuation: the loaded collections are merged in.
memoryLoad(ok) ==
  IF ok
    THEN /\ Len(Loaded(mem, heap, disk).heap) <= MaxRefs
         /\ mem' = Loaded(mem, heap, disk).mem
         /\ heap' = Loaded(mem, heap, disk).heap
         /\ lastGet' = NoGet
         /\ UNCHANGED <<own, given, mutations,
                 inst, intact, cleared>>
    ELSE UNCHANGED <<heap, mem, own, given, lastGet, mutations,
                 inst, intact, cleared>>

\* storage.loadMemory of start's load() settles.
loadMemorySettles(ok) ==
  /\ MemQuiet
  /\ startPc = "loading"
  /\ startPc' = IF ok THEN "afterLoad" ELSE "failed"
  /\ memoryLoad(ok)
  /\ trip' = NoTrip
  /\ UNCHANGED <<autoSave, timer, handles, armed, saving, saved, shutdownPc,
                 memCalls, cancelled, stopped, thrown, loadPc, disk>>
  /\ UNCHANGED <<lcVars, mwVars, libVars>>

\* start after `await this.load()`: setSaveInterval.
startContinues ==
  /\ startPc = "afterLoad"
  /\ shutdownPc # "afterSave"
  /\ setSaveInterval
  /\ startPc' = IF intact \/ ~autoSave \/ "storage" \notin adapters
                  THEN "none" ELSE "failed"
  /\ UNCHANGED <<autoSave, saving, saved, shutdownPc, memCalls, cancelled,
                 stopped>>
  /\ UNCHANGED <<dataVars, disk, trip>>
  /\ UNCHANGED <<lcVars, mwVars, libVars>>

\* adapters.load() gives the storage slot its adapter.
storageLoaded ==
  /\ MemQuiet
  /\ "storage" \notin adapters
  /\ adapters' = adaptersLoad(adapters)
  /\ disk' \in Disks
  /\ UNCHANGED <<status, tasks, micro, immediates, listeners, exited, calls,
                 shutdownWhileLoading, middlewares, global, bits, regs, paused>>
  /\ UNCHANGED <<autoSave, timer, handles, armed, saving, saved, shutdownPc,
                 startPc, memCalls, cancelled, stopped, thrown, dataVars,
                 trip>>
  /\ UNCHANGED <<mwVars, libVars>>

\* settings.set('autoSave', v)
settingsSet ==
  /\ MemQuiet
  /\ \E v \in BOOLEAN : v # autoSave /\ autoSave' = v
  /\ UNCHANGED <<timer, handles, armed, saving, saved, shutdownPc, startPc,
                 memCalls, cancelled, stopped, thrown, dataVars, disk, trip>>
  /\ UNCHANGED <<lcVars, mwVars, libVars>>

saveMemorySettlesAny == \E c \in saving, ok \in BOOLEAN : saveMemorySettles(c, ok)

loadMemorySettlesAny == \E ok \in BOOLEAN : loadMemorySettles(ok)

MemNext ==
  \/ storageLoaded
  \/ settingsSet
  \/ callSetSaveInterval
  \/ callClearSaveInterval
  \/ callSave
  \/ callMemoryShutdown
  \/ callMemoryStart
  \/ timerFires
  \/ saveMemorySettlesAny
  \/ shutdownContinues
  \/ loadMemorySettlesAny
  \/ startContinues

\* ------------------------------------------------------------------------
\* Memory: values set, got, saved and loaded
\* ------------------------------------------------------------------------

\* The save interval's variables, left alone by the data operations.
clockVars == <<autoSave, timer, handles, armed, saving, saved, shutdownPc,
               startPc, cancelled, stopped, thrown>>

\* The keys and collections the caller uses; "notes" is not a collection
\* of a new Memory.
Keys == {"a", "b"}
SetCollections == {"private", "notes"}

\* The values the caller builds: an object, or one holding another.
Contents ==
  {[val |-> v, child |-> <<>>] : v \in Vals}
    \cup {[val |-> v, child |-> << [val |-> w, child |-> <<>>] >>] :
            v \in Vals, w \in {"x"}}

\* The caller builds a value.
callerCreates ==
  /\ MemQuiet
  /\ Cardinality(own) < MaxOwn
  /\ \E d \in Contents :
       /\ Len(heap) + Size(d) <= MaxRefs
       /\ heap' = Alloc(heap, d)
  /\ own' = own \cup {Len(heap')}
  /\ UNCHANGED <<mem, given, lastGet, loadPc, mutations, disk, trip,
                 inst, intact, cleared>>
  /\ UNCHANGED <<clockVars, memCalls, lcVars, mwVars, libVars>>

\* memory.set(key, value, collection)
callSet ==
  /\ MemQuiet
  /\ memCalls < MaxMemCalls
  /\ memCalls' = memCalls + 1
  /\ \E key \in Keys, value \in own, collection \in SetCollections :
       /\ Len(heap) + Size(Deep(heap, value)) <= MaxRefs
       /\ set(key, value, collection)
       /\ given' = {g \in given :
                       g.key # key \/ g.collection # collection}
                     \cup {[key |-> key, collection |-> collection,
                             value |-> value]}
  /\ lastGet' = NoGet
  /\ trip' = NoTrip
  /\ UNCHANGED <<own, loadPc, mutations, disk,
                 inst, intact, cleared>>
  /\ UNCHANGED <<clockVars, lcVars, mwVars, libVars>>

\* memory.get(key, collection): return this[collection][key]
callGet ==
  /\ MemQuiet
  /\ \E collection \in DOMAIN mem :
       \E key \in DOMAIN mem[collection] :
         lastGet' = [key |-> key, collection |-> collection,
                     ref |-> mem[collection][key]]
  /\ UNCHANGED <<heap, mem, own, given, loadPc, mutations, disk, trip,
                 inst, intact, cleared>>
  /\ UNCHANGED <<clockVars, memCalls, lcVars, mwVars, libVars>>

\* The caller writes into an object it holds: one it built, or the one
\* get returned, or an object nested in them.
callerMutates ==
  /\ MemQuiet
  /\ \E r \in Reach(heap, own \cup ({lastGet.ref} \ {NoRef})) :
       /\ \E v \in Vals \ {heap[r].val} : heap' = [heap EXCEPT ![r].val = v]
       /\ mutations' =
            mutations
              \cup (IF r \in Reach(heap, {g.value : g \in given})
                      THEN {"given"} ELSE {})
              \cup (IF r \in Reach(heap, {lastGet.ref} \ {NoRef})
                      THEN {"got"} ELSE {})
       /\ LET stored ==
                UNION {{mem[c][k] : k \in DOMAIN mem[c]} : c \in DOMAIN mem}
          IN trip' = IF r \in Reach(heap, stored) THEN NoTrip ELSE trip
  /\ UNCHANGED <<mem, own, given, lastGet, loadPc, disk,
                 inst, intact, cleared>>
  /\ UNCHANGED <<clockVars, memCalls, lcVars, mwVars, libVars>>

\* memory.load() up to its await: return at once without a storage
\* adapter, else storage.loadMemory is called.
callMemoryLoad ==
  /\ MemQuiet
  /\ memCalls < MaxMemCalls
  /\ memCalls' = memCalls + 1
  /\ loadPc # "loading"
  /\ loadPc' = IF "storage" \in adapters THEN "loading" ELSE "returned"
  /\ trip' = IF trip.phase = "saved" /\ "storage" \in adapters
               THEN [trip EXCEPT !.phase = "loading"] ELSE NoTrip
  /\ UNCHANGED <<heap, mem, own, given, lastGet, mutations, disk,
                 inst, intact, cleared>>
  /\ UNCHANGED <<clockVars, lcVars, mwVars, libVars>>

\* storage.loadMemory of a load() call settles.
memoryLoadSettles(ok) ==
  /\ MemQuiet
  /\ loadPc = "loading"
  /\ loadPc' = IF ok THEN "loaded" ELSE "failed"
  /\ memoryLoad(ok)
  /\ trip' = IF ok /\ trip.phase = "loading"
               THEN [trip EXCEPT !.phase = "done"] ELSE NoTrip
  /\ UNCHANGED disk
  /\ UNCHANGED <<clockVars, memCalls, lcVars, mwVars, libVars>>

\* The other instance's set(key, value, collection).
callOtherSet ==
  /\ MemQuiet
  /\ memCalls < MaxMemCalls
  /\ memCalls' = memCalls + 1
  /\ \E key \in Keys, value \in own, collection \in SetCollections :
       /\ Len(heap) + Size(Deep(heap, value)) <= MaxRefs
       /\ heap' = clone(heap, value)
       /\ inst' = Bound(inst, collection, key, Len(heap'))
  /\ UNCHANGED <<mem, own, given, lastGet, loadPc, mutations, intact, cleared,
                 disk, trip>>
  /\ UNCHANGED <<clockVars, lcVars, mwVars, libVars>>

\* clear() on the instance self: every own property of the exported memory
\* is deleted, intervals included, then self gets three empty collections.
clear(self) ==
  /\ mem' = IF self = "memory" THEN Memory ELSE NoKeys
  /\ inst' = IF self = "memory" THEN inst
             ELSE [c \in DOMAIN inst |->
                     IF c \in DOMAIN Memory THEN NoKeys ELSE inst[c]]
  /\ intact' = FALSE

\* memory.clear(), or clear() on the other instance
callClear ==
  /\ MemQuiet
  /\ memCalls < MaxMemCalls
  /\ memCalls' = memCalls + 1
  /\ \E self \in {"memory", "other"} :
       /\ clear(self)
       /\ cleared' = Append(cleared, self)
  /\ lastGet' = NoGet
  /\ trip' = NoTrip
  /\ UNCHANGED <<heap, own, given, loadPc, mutations, disk>>
  /\ UNCHANGED <<clockVars, lcVars, mwVars, libVars>>

ClearNext ==
  \/ callerCreates
  \/ callSet
  \/ callOtherSet
  \/ callGet
  \/ callClear

TimerClearNext ==
  \/ storageLoaded
  \/ settingsSet
  \/ callSetSaveInterval
  \/ callClearSaveInterval
  \/ callSave
  \/ callMemoryShutdown
  \/ timerFires
  \/ saveMemorySettlesAny
  \/ shutdownContinues
  \/ callClear

DataNext ==
  \/ storageLoaded
  \/ callerCreates
  \/ callSet
  \/ callGet
  \/ callerMutates
  \/ callSave
  \/ saveMemorySettlesAny
  \/ callMemoryLoad
  \/ \E ok \in BOOLEAN : memoryLoadSettles(ok)

\* ------------------------------------------------------------------------
\* Path: two Paths under add, reset, forced and construction
\* ------------------------------------------------------------------------

\* No Path operation yet.
NoOp ==
  [op |-> "none", self |-> "global", collection |-> "listen", n |-> 0,
   id |-> "", was |-> 0, branch |-> [id |-> "", force |-> FALSE, n |-> 0]]

PathInit ==
  /\ copy = Path
  /\ made = 0
  /\ pathOp = NoOp
  /\ origin = [built |-> FALSE, shared |-> {}]

\* The branch objects a caller can pass to add: a new one, as each factory
\* builds, or one a Path already holds.
PathBranches ==
  {[id |-> i, force |-> f, n |-> made + 1] : i \in {"b1", "b2"}, f \in BOOLEAN}
    \cup UNION {{p[c][k] : k \in DOMAIN p[c]} :
                  p \in {global, copy}, c \in Collections}

\* A forced that removes nothing.
forcedKeepsAll(p, collection) ==
  [path |-> p, n |-> Cardinality(DOMAIN p[collection])]

\* Path.forced: delete each branch of the collection without force; return
\* the number of keys left.
forced(p, collection) ==
  LET kept == {id \in DOMAIN p[collection] : p[collection][id].force}
  IN [path |-> [p EXCEPT ![collection] = [id \in kept |-> @[id]]],
      n |-> Cardinality(kept)]

\* A constructor that keeps init's maps: this.listen = init.listen.
PathFromSharing(init) == [path |-> init, shared |-> Collections]

\* new Path(init): each collection is Object.assign({}, init[collection]),
\* a new map with init's entries; no map is held by both.
PathFrom(init) ==
  [path |-> [c \in Collections |-> [id \in DOMAIN init[c] |-> init[c][id]]],
   shared |-> {}]

\* An operation on the Path self leaves it as p; op is the history record,
\* which also keeps how many branches the collection held (for reset: the
\* Path's listen map) before. add and forced write into the map of the
\* collection, so the other Path changes with it if it holds the same map.
\* The copy is operated on once it is built.
PathStep(self, p, op) ==
  /\ self = "copy" => (origin.built \/ op.op = "new")
  /\ LET other == IF self = "global" THEN copy ELSE global
         q == IF op.op \in {"add", "forced"} /\ op.collection \in origin.shared
                THEN [other EXCEPT ![op.collection] = p[op.collection]]
                ELSE other
     IN /\ global' = IF self = "global" THEN p ELSE q
        /\ copy' = IF self = "copy" THEN p ELSE q
  /\ pathOp' = [op EXCEPT !.self = self,
                          !.was = Cardinality(DOMAIN (IF self = "global"
                                                        THEN global
                                                        ELSE copy)[op.collection])]
  /\ UNCHANGED <<status, tasks, micro, immediates, listeners, exited, calls,
                 shutdownWhileLoading, adapters, middlewares, bits, regs,
                 paused>>
  /\ UNCHANGED <<mwVars, memVars, bitVars, condVars, setVars, thoughtVars>>

\* self.add(branch, collection), which every Path factory ends with
pathAdd ==
  \E self \in {"global", "copy"}, collection \in RegCollections,
     branch \in PathBranches :
    /\ branch.n <= MaxBranches
    /\ made' = IF branch.n > made THEN branch.n ELSE made
    /\ PathStep(self,
                PathAdd(IF self = "global" THEN global ELSE copy, branch,
                        collection),
                [NoOp EXCEPT !.op = "add", !.collection = collection,
                             !.branch = branch, !.id = branch.id,
                             !.n = Cardinality(DOMAIN (IF self = "global"
                                                         THEN global
                                                         ELSE copy)[collection]
                                                 \cup {branch.id})])
    /\ UNCHANGED origin

\* self.reset()
pathReset ==
  \E self \in {"global", "copy"} :
    /\ PathStep(self, PathReset(IF self = "global" THEN global ELSE copy),
                [NoOp EXCEPT !.op = "reset"])
    /\ origin' = [origin EXCEPT !.shared = @ \ {"listen", "understand", "act"}]
    /\ UNCHANGED made

\* self.forced(collection)
pathForced ==
  \E self \in {"global", "copy"},
     collection \in {"listen", "understand", "act"} :
    LET r == forced(IF self = "global" THEN global ELSE copy, collection)
    IN /\ PathStep(self, r.path,
                   [NoOp EXCEPT !.op = "forced", !.collection = collection,
                                !.n = r.n])
       /\ UNCHANGED <<made, origin>>

\* copy = new Path(global)
pathNew ==
  /\ PathStep("copy", PathFrom(global).path, [NoOp EXCEPT !.op = "new"])
  /\ origin' = [built |-> TRUE, shared |-> PathFrom(global).shared]
  /\ UNCHANGED made

PathNext ==
  \/ pathAdd
  \/ pathReset
  \/ pathForced
  \/ pathNew

\* ------------------------------------------------------------------------
\* Bits: setupBit and doBit
\* ------------------------------------------------------------------------

\* Property names every plain object inherits: bits[id] is defined for
\* them although no bit has the id.
Inherited == {"constructor"}

BitInit ==
  /\ callbacks = {}
  /\ bitRun = [n |-> 0, id |-> "", state |-> "", pc |-> "none"]
  /\ ran = <<>>

\* doBit(id, state) up to its await. No bits[id]: log and return. bits[id]
\* not a Bit: the call of bit.execute throws. Else Bit.execute: without a
\* callback it returns; with one it calls callback(state) and awaits the
\* result, unless the callback throws.
callDoBit ==
  /\ bitRun.pc # "awaiting"
  /\ bitRun.n < MaxDoBits
  /\ \E id \in BitIds \cup Inherited \cup {"unknown"}, state \in {"s1", "s2"},
        throws \in BOOLEAN :
       /\ ran' = IF id \in bits /\ id \in callbacks
                   THEN Append(ran, <<id, state>>) ELSE ran
       /\ bitRun' = [n |-> bitRun.n + 1, id |-> id, state |-> state,
                     pc |-> IF id \in bits
                              THEN IF id \notin callbacks THEN "resolved"
                                   ELSE IF throws THEN "rejected"
                                   ELSE "awaiting"
                              ELSE IF id \in Inherited THEN "rejected"
                              ELSE "resolved"]
  /\ UNCHANGED <<callbacks, pathVars, condVars, setVars, thoughtVars>>
  /\ UNCHANGED <<lcVars, mwVars, memVars>>

\* The callback's result settles; doBit's await continues and doBit returns,
\* or rejects with it.
callbackSettles ==
  /\ bitRun.pc = "awaiting"
  /\ \E ok \in BOOLEAN :
       bitRun' = [bitRun EXCEPT !.pc = IF ok THEN "resolved" ELSE "rejected"]
  /\ UNCHANGED <<callbacks, ran, pathVars, condVars, setVars, thoughtVars>>
  /\ UNCHANGED <<lcVars, mwVars, memVars>>

BitNext ==
  \/ callSetupBit
  \/ callDoBit
  \/ callbackSettles

\* ------------------------------------------------------------------------
\* Conditions: expressions added, executed and read
\* ------------------------------------------------------------------------

\* The strings given as conditions: every string of at most three
\* characters over "/" and "a", and /a/i.
CondStrings ==
  UNION {[1..n -> {"/", "a"}] : n \in 0..3} \cup {<<"/", "a", "/", "i">>}

\* The values given as conditions: strings, a RegExp, a Condition object.
CondValues ==
  {[type |-> "string", s |-> s] : s \in CondStrings}
    \cup {[type |-> "regexp", s |-> <<"a">>], [type |-> "condition", s |-> <<"a">>]}

\* Expression.fromString: str.match(/^\/(.+)\/(.*)$/) (the first group
\* greedy, so the flags begin after the last "/"), then
\* new RegExp(match[1], match[2]), which throws on flags other than the
\* flag letters; no match throws as well.
fromString(str) ==
  LET slashes == {i \in 3..Len(str) : str[i] = "/"}
      last == CHOOSE i \in slashes : \A j \in slashes : j <= i
  IN IF Len(str) = 0 \/ str[1] # "/" \/ slashes = {}
       THEN [threw |-> TRUE, re |-> [whole |-> FALSE, text |-> <<>>]]
     ELSE IF \E i \in (last + 1)..Len(str) : str[i] # "i"
       THEN [threw |-> TRUE, re |-> [whole |-> FALSE, text |-> <<>>]]
     ELSE [threw |-> FALSE,
           re |-> [whole |-> FALSE, text |-> SubSeq(str, 2, last - 1)]]

\* str.match(re): for a pattern of plain characters the text anywhere in
\* str; for the pattern ^(text)$ of the Condition {is: text} the whole of
\* str, captured as group 1. null is a result without hit.
strMatch(str, re) ==
  LET hit == IF re.whole THEN str = re.text
             ELSE \E i \in 0..(Len(str) - Len(re.text)) :
                    SubSeq(str, i + 1, i + Len(re.text)) = re.text
  IN [hit |-> hit, group |-> hit /\ re.whole,
      text |-> IF hit THEN re.text ELSE <<>>]

\* parseInt(key, 10) is a number: the key begins with a digit.
Numeric(key) == key \in {"0", "1", "2", "3", "2nd"}

\* Conditions.add(condition, key) on the object c; key "" is no key.
add(c, condition, key) ==
  LET k == IF key # "" THEN key
           ELSE <<"0", "1", "2", "3">>[Cardinality(DOMAIN c.expressions) + 1]
      built == IF condition.type = "string" THEN fromString(condition.s)
              ELSE [threw |-> FALSE,
                    re |-> [whole |-> condition.type = "condition",
                            text |-> condition.s]]
  IN IF built.threw THEN [c EXCEPT !.threw = TRUE]
     ELSE [c EXCEPT !.expressions =
                      [x \in DOMAIN @ \cup {k} |-> IF x = k THEN built.re ELSE @[x]]]

\* The adds of a constructor or caller, in order, up to the first throw.
RECURSIVE addAll(_, _)
addAll(c, items) ==
  IF items = <<>> \/ c.threw THEN c
  ELSE addAll(add(c, items[1].value, items[1].key), Tail(items))

\* new Conditions(condition): nothing for undefined and for the empty
\* string (`if (!condition) return`); one add for a string, RegExp or
\* Condition; an add per element of an array; an add per key of a
\* collection.
Conditions(items) ==
  LET new == [expressions |-> NoKeys, matches |-> NoKeys, captures |-> NoKeys,
              threw |-> FALSE]
  IN IF Len(items) = 1 /\ items[1].key = ""
          /\ items[1].value = [type |-> "string", s |-> <<>>]
       THEN new
     ELSE addAll(new, items)

\* Conditions.exec(str): per expression the match, and as capture group 1
\* of the match without leading and trailing separators (the strings here
\* hold none).
exec(c, str) ==
  [c EXCEPT
     !.matches = [k \in DOMAIN @ \cup DOMAIN c.expressions |->
                    IF k \in DOMAIN c.expressions
                      THEN strMatch(str, c.expressions[k]) ELSE @[k]],
     !.captures = [k \in DOMAIN @ \cup DOMAIN c.expressions |->
                     IF k \in DOMAIN c.expressions
                       THEN [defined |-> strMatch(str, c.expressions[k]).group,
                             s |-> IF strMatch(str, c.expressions[k]).group
                                     THEN str ELSE <<>>]
                       ELSE @[k]]]

\* Conditions.success
success(c) == \A k \in DOMAIN c.matches : c.matches[k].hit

\* Conditions.match: "boolean" with success for more than one key, else
\* matches[matchKeys[0]]: "single", or "undefined" without any key.
match(c) ==
  IF Cardinality(DOMAIN c.matches) > 1 THEN "boolean"
  ELSE IF DOMAIN c.matches = {} THEN "undefined" ELSE "single"

\* Conditions.matched and Conditions.captured: the "map" for more than one
\* key or a key that is not a number, else "single" for one key, else
\* "undefined".
matched(c) ==
  IF Cardinality(DOMAIN c.matches) > 1 \/ \E k \in DOMAIN c.matches : ~Numeric(k)
    THEN "map"
  ELSE IF Cardinality(DOMAIN c.matches) = 1 THEN "single" ELSE "undefined"

CondInit ==
  /\ cnd = Conditions(<<>>)
  /\ cndOp = [op |-> "none", items |-> <<>>, str |-> <<>>, before |-> NoKeys]

\* The arguments of a constructor call: none, one value, an array of two
\* values, or a collection of Condition objects under one or two names.
CondInputs ==
  {<<>>} \cup {<<[key |-> "", value |-> v]>> : v \in CondValues}
    \cup {<<[key |-> "", value |-> [type |-> "regexp", s |-> <<"a">>]],
            [key |-> "", value |-> v]>> : v \in CondValues}
    \cup {<<[key |-> k, value |-> [type |-> "condition", s |-> <<"a">>]]>> :
            k \in {"name", "2nd"}}
    \cup {<<[key |-> "name", value |-> [type |-> "condition", s |-> <<"a">>]],
            [key |-> "2nd", value |-> [type |-> "condition", s |-> <<"a">>]]>>}

\* cnd = new Conditions(...); a throw leaves no new object, shown here as
\* the object with `threw` set.
condNew ==
  /\ \E items \in CondInputs :
       /\ cnd' = Conditions(items)
       /\ cndOp' = [op |-> "new", items |-> items, str |-> <<>>,
                    before |-> NoKeys]
  /\ UNCHANGED <<pathVars, bitVars, setVars, thoughtVars>>
  /\ UNCHANGED <<lcVars, mwVars, memVars>>

\* cnd.add(condition)
condAdd ==
  /\ ~cnd.threw
  /\ Cardinality(DOMAIN cnd.expressions) < MaxExpressions
  /\ \E v \in CondValues :
       /\ cnd' = [add(cnd, v, "") EXCEPT !.threw = FALSE]
       /\ cndOp' = [op |-> IF add(cnd, v, "").threw THEN "addThrew" ELSE "add",
                    items |-> <<[key |-> "", value |-> v]>>, str |-> <<>>,
                    before |-> cnd.expressions]
  /\ UNCHANGED <<pathVars, bitVars, setVars, thoughtVars>>
  /\ UNCHANGED <<lcVars, mwVars, memVars>>

\* cnd.exec(str)
condExec ==
  /\ ~cnd.threw
  /\ \E str \in {<<"a">>, <<"/">>} :
       /\ cnd' = exec(cnd, str)
       /\ cndOp' = [op |-> "exec", items |-> <<>>, str |-> str,
                    before |-> cnd.expressions]
  /\ UNCHANGED <<pathVars, bitVars, setVars, thoughtVars>>
  /\ UNCHANGED <<lcVars, mwVars, memVars>>

CondNext ==
  \/ condNew
  \/ condAdd
  \/ condExec

\* ------------------------------------------------------------------------
\* Settings: set, reloadConfig, resetConfig and extend
\* ------------------------------------------------------------------------

\* The keys used: an initial option in its two spellings, an initial option
\* with one spelling, and a key that is no initial option.
SettingKeys == {"auto-save", "autoSave", "name", "foo"}

\* hyphenate(key): fooBar to foo-bar
hyphenate(key) == IF key = "autoSave" THEN "auto-save" ELSE key

\* camelCase(key): foo-bar to fooBar
camelCase(key) == IF key = "auto-save" THEN "autoSave" ELSE key

\* initOptions, as far as the keys used go.
initOptions == {"auto-save", "name"}

\* loadConfig(reset) and the assignment of its result to config: the parsed
\* arguments hold each option under both spellings; unless reset, each key
\* of updates is assigned over them; then every key whose hyphenated form
\* is not an option is deleted.
loadConfig(s, isReset) ==
  LET argv == {k \in SettingKeys : hyphenate(k) \in s.options}
      updates == IF isReset THEN NoKeys ELSE s.updates
  IN [options |-> s.options,
      updates |-> updates,
      config |-> [k \in {x \in argv \cup DOMAIN updates :
                           hyphenate(x) \in s.options} |->
                    IF k \in DOMAIN updates THEN updates[k] ELSE "loaded"]]

SettingsInit ==
  /\ settings = loadConfig([options |-> initOptions, updates |-> NoKeys], TRUE)
  /\ assigned = [op |-> "new", values |-> NoKeys]

\* settings.set(key, value): config and updates get the value under the
\* key and under its other spelling.
settingsAssign ==
  /\ \E key \in SettingKeys, value \in {"v1", "v2"} :
       LET both == {key} \cup (IF key = hyphenate(key) THEN {camelCase(key)}
                               ELSE IF key = camelCase(key)
                                 THEN {hyphenate(key)} ELSE {})
           put(m) == [k \in DOMAIN m \cup both |->
                        IF k \in both THEN value ELSE m[k]]
       IN /\ settings' = [settings EXCEPT !.config = put(@),
                                          !.updates = put(@)]
          /\ assigned' =
               [op |-> "set",
                values |-> [k \in (DOMAIN assigned.values \ both) \cup {key} |->
                              IF k = key THEN value ELSE assigned.values[k]]]
  /\ UNCHANGED <<pathVars, bitVars, condVars, thoughtVars>>
  /\ UNCHANGED <<lcVars, mwVars, memVars>>

\* settings.reloadConfig()
settingsReload ==
  /\ settings' = loadConfig(settings, FALSE)
  /\ assigned' = [assigned EXCEPT !.op = "reload"]
  /\ UNCHANGED <<pathVars, bitVars, condVars, thoughtVars>>
  /\ UNCHANGED <<lcVars, mwVars, memVars>>

\* settings.resetConfig(): the options are the initial ones again.
settingsReset ==
  /\ settings' = loadConfig([settings EXCEPT !.options = initOptions], TRUE)
  /\ assigned' = [op |-> "reset", values |-> NoKeys]
  /\ UNCHANGED <<pathVars, bitVars, condVars, thoughtVars>>
  /\ UNCHANGED <<lcVars, mwVars, memVars>>

\* settings.extend({ foo: ... }): the option is added, then reloadConfig.
settingsExtend ==
  /\ settings' = loadConfig([settings EXCEPT !.options = @ \cup {"foo"}], FALSE)
  /\ assigned' = [assigned EXCEPT !.op = "extend"]
  /\ UNCHANGED <<pathVars, bitVars, condVars, thoughtVars>>
  /\ UNCHANGED <<lcVars, mwVars, memVars>>

SettingsNext ==
  \/ settingsAssign
  \/ settingsReload
  \/ settingsReset
  \/ settingsExtend

\* ------------------------------------------------------------------------
\* Thought process: the stages run over one State per received message
\* ------------------------------------------------------------------------

\* The stages in their order, and the place after the last.
Stages == << "hear", "listen", "understand", "serve", "act", "respond",
             "remember" >>

\* The inbound messages: text, enter / leave / topic, and server messages.
MessageKinds == {"text", "enter", "server"}

\* A stage whose act trigger leaves out the server messages.
StageRunsTextOnly(t, stage) ==
  CASE stage = "hear" -> TRUE
    [] stage = "listen" -> t.kind \in {"text", "enter"}
    [] stage = "understand" -> t.kind = "text" /\ t.long /\ t.matched = << >>
    [] stage = "serve" -> t.kind = "server"
    [] stage = "act" -> t.kind # "server" /\ t.matched = << >> /\ ~t.wrapped
    [] stage = "respond" -> t.wrote
    [] stage = "remember" -> TRUE

\* The table of stages: what each stage runs on.
StageRuns(t, stage) ==
  CASE stage = "hear" -> TRUE
    [] stage = "listen" -> t.kind \in {"text", "enter"}
    [] stage = "understand" -> t.kind = "text" /\ t.long /\ t.matched = << >>
    [] stage = "serve" -> t.kind = "server"
    [] stage = "act" -> t.matched = << >> /\ ~t.wrapped
    [] stage = "respond" -> t.wrote
    [] stage = "remember" -> TRUE

\* One stage over the State: skipped when it does not run on the message;
\* act wraps the message; the stage's middleware runs, and a piece of it
\* may set done, which ends the stages; else the branches of the stage are
\* evaluated, each match is added to matched, and a callback may write.
Processed(t, setsDone, matches, writes) ==
  LET stage == Stages[t.at]
      branches == stage \in {"listen", "understand", "serve", "act"}
      entered == [t EXCEPT !.wrapped = @ \/ stage = "act"]
  IN IF ~StageRuns(t, stage) THEN [t EXCEPT !.at = @ + 1]
     ELSE IF setsDone THEN [entered EXCEPT !.at = Len(Stages) + 1, !.done = stage]
     ELSE IF branches /\ matches > 0
       THEN [entered EXCEPT !.at = @ + 1,
                            !.matched = [i \in 1..matches |-> stage],
                            !.wrote = writes]
     ELSE [entered EXCEPT !.at = @ + 1]

ThoughtInit ==
  thought = [at |-> 0, kind |-> "text", long |-> FALSE, done |-> "none",
             matched |-> << >>, wrapped |-> FALSE, wrote |-> FALSE]

\* receive(message): a fresh State for the message, hear comes first.
receive ==
  /\ thought.at \in {0, Len(Stages) + 1}
  /\ \E kind \in MessageKinds, long \in BOOLEAN :
       thought' = [at |-> 1, kind |-> kind, long |-> long /\ kind = "text",
                   done |-> "none", matched |-> << >>, wrapped |-> FALSE,
                   wrote |-> FALSE]
  /\ UNCHANGED <<pathVars, bitVars, condVars, setVars>>
  /\ UNCHANGED <<lcVars, mwVars, memVars>>

\* The next stage of the orchestration, awaited before the one after it.
process ==
  /\ thought.at \in 1..Len(Stages)
  /\ \E setsDone \in BOOLEAN, matches \in 0..MaxMatches, writes \in BOOLEAN :
       thought' = Processed(thought, setsDone, matches, writes)
  /\ UNCHANGED <<pathVars, bitVars, condVars, setVars>>
  /\ UNCHANGED <<lcVars, mwVars, memVars>>

ThoughtNext ==
  \/ receive
  \/ process

\* ------------------------------------------------------------------------
\* Specifications
\* ------------------------------------------------------------------------

vars == <<stack, phase, idx, settled, threw, done, isPending, promise,
          thenJob, outer, err, complete, pendingDone, log,
          status, tasks, micro, immediates, listeners, exited, calls,
          shutdownWhileLoading, adapters, middlewares, global, bits, regs,
          paused,
          autoSave, timer, handles, armed, saving, saved, shutdownPc,
          startPc, memCalls, cancelled, stopped, thrown,
          heap, mem, disk, own, given, lastGet, loadPc, trip, mutations,
          inst, intact, cleared, copy, made, pathOp, origin, callbacks, bitRun, ran,
          cnd, cndOp, settings, assigned, thought>>

Init == MwInit /\ LcInit /\ MemInit /\ PathInit /\ BitInit
        /\ CondInit /\ SettingsInit /\ ThoughtInit

\* One Middleware, pieces registered and one execution run.
SpecMiddleware == Init /\ [][MwNext]_vars

\* The lifecycle controller under calls made at any time.
SpecLifecycle == Init /\ [][LcNext]_vars

\* The lifecycle controller and the registries it loads and resets.
SpecRegistry == Init /\ [][RegNext]_vars

\* Memory's save interval under calls, timers and storage completions.
SpecMemory == Init /\ [][MemNext]_vars

\* Memory's collections under set, get, save and load.
SpecMemoryData == Init /\ [][DataNext]_vars

\* Two Paths under the Path operations.
SpecPath == Init /\ [][PathNext]_vars

\* The bit registry under setupBit and doBit.
SpecBit == Init /\ [][BitNext]_vars

\* One Conditions object built, extended and executed.
SpecConditions == Init /\ [][CondNext]_vars

\* The save interval of the exported memory under clear().
SpecMemoryTimerClear == Init /\ [][TimerClearNext]_vars

\* The thought process over received messages.
SpecThought == Init /\ [][ThoughtNext]_vars

\* One Settings instance under set, reload, reset and extend.
SpecSettings == Init /\ [][SettingsNext]_vars

\* Two Memory instances under set, get and clear.
SpecMemoryClear == Init /\ [][ClearNext]_vars

\* ------------------------------------------------------------------------
\* Middleware: properties
\* ------------------------------------------------------------------------

\* Positions of an event in the history.
Pos(e) == {i \in 1..Len(log) : log[i] = e}

\* Positions of the events of one kind.
PosKind(kind) == {i \in 1..Len(log) : log[i][1] = kind}

\* The pieces invoked so far.
Invoked == {log[i][2] : i \in PosKind("piece")}

\* A piece that calls done() has been invoked.
DoneCalled == \E k \in Invoked : stack[k].act = "done"

\* Every piece invoked so far called next(), none called done() or threw.
AllCalledNext ==
  \A k \in Invoked : stack[k].act \in {"next", "wrap", "wrapAsync"}

\* C1: if a piece calls done() while the stack runs, complete is never
\* invoked for that execution.
C1_DoneSkipsComplete == ~(DoneCalled /\ Pos(<<"complete", 0>>) # {})

\* C2: once a piece has called done(), no piece later in the stack is
\* invoked, and the returned promise resolves.
C2_DoneStopsStack ==
  \A i \in PosKind("piece") :
    stack[log[i][2]].act = "done" =>
      /\ \A j \in PosKind("piece") : j <= i
      /\ (phase = "finished" /\ pendingDone = <<>> /\ thenJob = "none"
            => outer = "resolved")

\* C3: when every piece calls next() and none calls done() or throws (the
\* empty stack included), complete is invoked exactly once, after every
\* registered piece has finished; the current done is invoked only after
\* complete has finished; and only then does the promise resolve.
C3_CompleteThenDone ==
  AllCalledNext =>
    /\ Cardinality(Pos(<<"complete", 0>>)) <= 1
    /\ phase = "finished" => Cardinality(Pos(<<"complete", 0>>)) = 1
    /\ \A c \in Pos(<<"complete", 0>>) : \A r \in PosKind("register") :
         r < c => \E s \in Pos(<<"settled", log[r][2]>>) : s < c
    /\ \A w \in PosKind("wrapper") \cup PosKind("resolve") :
         \E c \in Pos(<<"completed", 0>>) : c < w
    /\ promise = "resolved" => Pos(<<"completed", 0>>) # {}
    /\ (phase = "finished" /\ ~complete.throws /\ pendingDone = <<>>)
         => promise = "resolved"

C3_Witness ==
  /\ Len(stack) = MaxStack
  /\ AllCalledNext
  /\ Invoked = 1..MaxStack
  /\ \E k \in Invoked : stack[k].act = "wrap"
  /\ outer = "resolved"

\* C4 as stated: a newDone passed as next(newDone) is never run before
\* complete has finished.
C4_WrapperOnlyAfterComplete ==
  \A w \in PosKind("wrapper") : \E c \in Pos(<<"completed", 0>>) : c < w

\* C4 amended: when no piece calls done(), a newDone passed as
\* next(newDone) is never run before complete has finished; several
\* wrappers run in reverse order of their pieces; and the promise resolves
\* only when the chain has reached the original done, every wrapper of the
\* chain having run.
C4_WrappersLifoAfterComplete ==
  ~DoneCalled =>
    /\ \A w \in PosKind("wrapper") : \E c \in Pos(<<"completed", 0>>) : c < w
    /\ \A i, j \in PosKind("wrapper") : i < j => log[i][2] > log[j][2]
    /\ \A r \in PosKind("resolve") : \A n \in 1..Len(done) :
         \E w \in Pos(<<"wrapper", done[n]>>) : w < r

C4_Witness ==
  /\ ~DoneCalled
  /\ Cardinality(PosKind("wrapper")) >= 2
  /\ \E k \in Invoked : stack[k].act = "wrapAsync"
  /\ outer = "resolved"

\* C5: an exception of a piece or of complete rejects the returned promise,
\* and in both cases the error carries the State and the middleware type.
C5_RejectionAnnotated ==
  /\ promise = "rejected" => (err.state /\ err.middleware)
  /\ (phase = "finished" /\ threw /\ thenJob = "none") => outer = "rejected"

\* C6: pieces are invoked one at a time in registration order, piece k+1
\* not before what piece k returned has settled, and no piece is invoked
\* inside the execute() call itself.
C6_SequentialPieces ==
  /\ phase \in {"idle", "scheduled"} => PosKind("piece") = {}
  /\ \A i \in PosKind("piece") :
       /\ log[i][2] = Cardinality({j \in PosKind("piece") : j <= i})
       /\ \E r \in Pos(<<"register", log[i][2]>>) : r < i
       /\ log[i][2] > 1 => \E s \in Pos(<<"settled", log[i][2] - 1>>) : s < i

C6_Witness ==
  /\ Invoked = 1..MaxStack
  /\ stack[1].async
  /\ Pos(<<"settled", 1>>) # {}

\* ------------------------------------------------------------------------
\* Lifecycle: properties
\* ------------------------------------------------------------------------

\* Every frame of every call in flight.
Frames == UNION {{tasks[t][i] : i \in 1..Len(tasks[t])} : t \in DOMAIN tasks}

\* No continuation can run: every call in flight waits on an event.
AtRest == \A t \in DOMAIN tasks : ~Runnable(t)

\* A load or start in flight caught an exception of a component and called
\* shutdown(1).
Failed == \E f \in Frames : f.fn \in {"load", "start"} /\ f.pc = "catch"

\* C7: shutdown() called while a load() is in flight (status loading),
\* called directly or from start(): the status never becomes starting or
\* started after that call began, and once every pending call has finished
\* the status is shutdown.
C7_ShutdownWhileLoadingWins ==
  shutdownWhileLoading =>
    /\ status \notin {"starting", "started"}
    /\ DOMAIN tasks = {} => status = "shutdown"

\* C8: a shutdown() called while the status is loading (resp. starting)
\* makes none of its tear-down calls until the status has become loaded
\* (resp. started).
C8_TeardownAfterTransition ==
  \A f \in Frames :
    (f.fn = "shutdown" /\ f.entry \in {"loading", "starting"}
       /\ f.pc \in TeardownPcs) => f.reached

\* C9: when a component throws during load() or start(), the shutdown(1)
\* that is triggered runs to completion: the lifecycle never comes to rest
\* in loading or starting with that shutdown still waiting.
C9_FailureShutsDown ==
  ~(Failed /\ AtRest /\ ~exited /\ status \in {"loading", "starting"})

\* The transitions of the status the lifecycle allows.
Allowed(from, to) ==
  CASE to = "loading" -> from = "waiting"
    [] to = "loaded" -> from \in {"loading", "shutdown"}
    [] to = "starting" -> from = "loaded"
    [] to = "started" -> from = "starting"
    [] to = "waiting" -> from = "shutdown"
    [] OTHER -> TRUE

\* C10: under any interleaving of load, start, shutdown, pause and reset,
\* the status becomes loading only from waiting, loaded only from loading
\* or (by pause) from shutdown, starting only from loaded, started only
\* from starting, and waiting only from shutdown.
C10_StatusTransitions ==
  [][status' # status => Allowed(status, status')]_vars

\* ------------------------------------------------------------------------
\* Registries: properties
\* ------------------------------------------------------------------------

\* Call t is at the last await of reset() and its continuation runs in
\* this step: reset() completes.
ResetCompletes(t) ==
  /\ Head(tasks[t]).fn = "reset"
  /\ Head(tasks[t]).pc = "delay"
  /\ (t \notin DOMAIN tasks' \/ tasks'[t] = Tail(tasks[t]))

\* Path p holds no branch.
NoBranches(p) == \A c \in Collections : DOMAIN p[c] = {}

\* C11: when reset() completes, from whatever status it was called in, the
\* status is waiting, every adapter slot is empty, no stage has a
\* Middleware and the global Path holds no branch.
C11_ResetEmptiesRegistries ==
  [][\A t \in DOMAIN tasks :
       ResetCompletes(t) =>
         /\ status' = "waiting"
         /\ adapters' = {}
         /\ DOMAIN middlewares' = {}
         /\ NoBranches(global')]_vars

\* s is an initial part of t.
IsPrefix(s, t) == Len(s) <= Len(t) /\ SubSeq(t, 1, Len(s)) = s

\* The statuses set by a pause() made when started, and by the start()
\* that follows it.
PauseStatuses == <<"started", "shutdown", "loaded">>

StartStatuses == <<"starting", "started">>

StartSteps ==
  {<<"server", "adapters">>, <<"adapters", "memory">>, <<"memory", "delay">>,
   <<"catch", "delay">>}

ShutdownSteps ==
  {<<"memory", "adapters">>, <<"adapters", "server">>, <<"server", "delay">>}

\* The awaits of fn that have one before them.
Later(fn) ==
  IF fn = "start" THEN {s[2] : s \in StartSteps}
  ELSE IF fn = "shutdown" THEN {s[2] : s \in ShutdownSteps}
  ELSE {}

\* C13: within a call, start() awaits server.start, adapters.start and
\* memory.start in that order and shutdown() awaits memory.shutdown,
\* adapters.shutdown and server.shutdown in that order, each call begun
\* only when the one before it has finished; and the status becomes
\* shutdown only in the continuation of a shutdown() whose three calls have
\* finished.
C13_TeardownReversesStart ==
  [][/\ \A t \in DOMAIN tasks' :
          LET g == Head(tasks'[t])
          IN (/\ g.pc \in Later(g.fn)
              /\ (t \in DOMAIN tasks =>
                    <<Head(tasks[t]).fn, Head(tasks[t]).pc>> # <<g.fn, g.pc>>))
               => /\ t \in DOMAIN tasks
                  /\ Head(tasks[t]).fn = g.fn
                  /\ <<Head(tasks[t]).pc, g.pc>> \in
                       (IF g.fn = "start" THEN StartSteps ELSE ShutdownSteps)
     /\ (status' = "shutdown" /\ status # "shutdown")
          => \E t \in DOMAIN tasks :
               /\ Head(tasks[t]).fn = "shutdown"
               /\ Head(tasks[t]).pc = "delay"
               /\ (t \notin DOMAIN tasks' \/ tasks'[t] = Tail(tasks[t]))]_vars

C13_Witness ==
  \E f \in Frames : f.fn = "shutdown" /\ f.pc = "delay" /\ f.entry = "started"

\* C14: while the status is started, the contents of the global Path, of
\* the Bit registry and of the Middleware stacks do not change.
C14_ReadOnlyWhileStarted ==
  [][status = "started" => UNCHANGED <<global, bits, middlewares>>]_vars

\* ------------------------------------------------------------------------
\* Memory: properties
\* ------------------------------------------------------------------------

\* C15: at no time are two storage.saveMemory calls in flight, whatever
\* the interleaving of timer-triggered saves, direct save() calls and
\* shutdown().
C15_OneSaveInFlight == Cardinality(saving) <= 1

\* C16: with a storage adapter and autoSave true, when a save() that
\* cleared the interval on entry exits, whether saveMemory resolved or
\* rejected, the interval is armed again.
C16_SaveRearms ==
  [][\A c \in saving \ saving' :
       (c.cleared /\ "storage" \in adapters /\ autoSave)
         => timer' \in armed']_vars

\* C17: after the caller's clearSaveInterval(), no saveMemory call begins
\* until the caller calls setSaveInterval() or start() again (or saves
\* itself), also when a save() was in flight at the time.
C17_CancelStopsSaving ==
  [][(cancelled /\ cancelled') => saved' = saved]_vars

\* C18: once shutdown() has completed, no save interval is armed and no
\* further saveMemory call begins, also when a timer-triggered save() was
\* in flight when shutdown() was called.
C18_ShutdownStopsSaving ==
  [][stopped' = "yes" =>
       (armed' = {} /\ (stopped = "yes" => saved' = saved))]_vars

\* The objects a step wrote into.
Written(h1, h2) == {r \in DOMAIN h1 : h2[r] # h1[r]}

\* What get(g.key, g.collection) shows: the content of the stored object.
Shown(m, h, g) == Deep(h, m[g.collection][g.key])

\* C19: set stores a deep copy and get returns the stored object. When the
\* caller writes into the value it passed to set(key, value, collection),
\* what get(key, collection) shows stays as it was; the object get returned
\* is the one the collection holds, and when the caller writes into it,
\* what the next get of that key shows is changed.
C19_SetCopiesGetShares ==
  [][LET w == Written(heap, heap')
     IN (w # {} /\ mem' = mem) =>
          /\ \A g \in given :
               w \subseteq Reach(heap, {g.value}) =>
                 Shown(mem, heap', g) = Shown(mem, heap, g)
          /\ (lastGet.ref # NoRef /\ w \subseteq Reach(heap, {lastGet.ref})) =>
               /\ mem[lastGet.collection][lastGet.key] = lastGet.ref
               /\ Shown(mem, heap', lastGet) # Shown(mem, heap, lastGet)]_vars

\* The caller has written into a value it had passed to set and into an
\* object get returned.
C19_Witness == mutations = {"given", "got"}

\* C20: when save() and then load() have completed against a storage that
\* returns what saveMemory was last given, with no set and no write into a
\* stored object in between, users, rooms and private hold what they held
\* when save() was called.
C20_SaveLoadRoundTrip ==
  trip.phase = "done" => Known(View(mem, heap)) = Known(trip.before)

\* A round trip has completed over a private collection that held a key.
C20_Witness ==
  /\ trip.phase = "done"
  /\ trip.before["private"] # NoKeys

\* The contents a collection-level shallow merge of loaded into view gives.
Merged(view, loaded) ==
  [c \in DOMAIN view \cup DOMAIN loaded |->
     IF c \notin DOMAIN loaded THEN view[c]
     ELSE [k \in (IF c \in DOMAIN view THEN DOMAIN view[c] ELSE {})
                   \cup DOMAIN loaded[c] |->
             IF k \in DOMAIN loaded[c] THEN loaded[c][k] ELSE view[c][k]]]

\* C21: when load() completes, each collection of the loaded object holds
\* every loaded entry, the loaded value winning on a key clash, and every
\* entry memory held that the loaded collection lacks, those still the same
\* objects; a collection absent from the loaded object is unchanged; a
\* load() without a storage adapter, or one whose loadMemory rejects,
\* leaves memory as it was.
C21_LoadMerges ==
  [][/\ (loadPc = "loading" /\ loadPc' = "loaded") =>
          /\ View(mem', heap') = Merged(View(mem, heap), disk)
          /\ \A c \in DOMAIN mem :
               \A k \in DOMAIN mem[c] :
                 (c \notin DOMAIN disk \/ k \notin DOMAIN disk[c]) =>
                   mem'[c][k] = mem[c][k]
     /\ (loadPc # loadPc' /\ loadPc' \in {"returned", "failed"}) =>
          (mem' = mem /\ heap' = heap)]_vars

\* A load has completed over a private collection in which the storage held
\* another value for key a than the one set, and no key b.
C21_Witness ==
  /\ loadPc = "loaded"
  /\ mutations = {}
  /\ "b" \in DOMAIN mem["private"]
  /\ \E g \in given :
       /\ g.key = "a"
       /\ g.collection = "private"
       /\ Deep(heap, mem["private"]["a"]) # Deep(heap, g.value)

\* C22: a clear() called on an instance leaves that instance with exactly
\* the three empty collections users, rooms and private, and leaves the
\* other instance as it was.
C22_ClearWipesInstance ==
  [][Len(cleared') > Len(cleared) =>
       IF cleared'[Len(cleared')] = "memory"
         THEN mem' = Memory /\ inst' = inst
         ELSE inst' = Memory /\ mem' = mem]_vars

\* The Path an operation recorded in op was called on, of the two given.
PathOf(op, g, c) == IF op.self = "global" THEN g ELSE c

\* C23: when forced(s) returns n, every branch left in the stage map s has
\* force, every branch with force that was in s is still there, n is the
\* number of branches in s, and the other stage maps of the Path, and the
\* other Path, are as they were.
C23_ForcedKeepsForced ==
  [][pathOp'.op = "forced" =>
       LET b == PathOf(pathOp', global, copy)
           a == PathOf(pathOp', global', copy')
           s == pathOp'.collection
       IN /\ \A id \in DOMAIN a[s] : a[s][id].force
          /\ \A id \in DOMAIN b[s] :
               b[s][id].force => (id \in DOMAIN a[s] /\ a[s][id] = b[s][id])
          /\ pathOp'.n = Cardinality(DOMAIN a[s])
          /\ \A c \in Collections \ {s} : a[c] = b[c]
          /\ PathOf(pathOp', copy', global') = PathOf(pathOp', copy, global)]_vars

\* A forced has removed a branch and kept another.
C23_Witness ==
  /\ pathOp.op = "forced"
  /\ pathOp.was > pathOp.n
  /\ pathOp.n > 0

C25_AddBindsId ==
  [][pathOp'.op = "add" =>
       LET b == PathOf(pathOp', global, copy)
           a == PathOf(pathOp', global', copy')
           s == pathOp'.collection
           id == pathOp'.branch.id
       IN /\ pathOp'.id = id
          /\ a[s][id] = pathOp'.branch
          /\ DOMAIN a[s] = DOMAIN b[s] \cup {id}
          /\ \A k \in DOMAIN b[s] \ {id} : a[s][k] = b[s][k]
          /\ \A c \in Collections \ {s} : a[c] = b[c]
          /\ PathOf(pathOp', copy', global') = PathOf(pathOp', copy, global)]_vars

\* An add has rebound an id the stage map already held, to another branch
\* object than the first one made.
C25_Witness ==
  /\ pathOp.op = "add"
  /\ pathOp.was = pathOp.n
  /\ pathOp.branch.n = MaxBranches

\* C26: every branch is held in at most one stage map, over both Paths.
C26_BranchInOneMap ==
  \A p1, p2 \in {"global", "copy"} :
    \A c1, c2 \in Collections :
      (p1 # p2 \/ c1 # c2) =>
        \A k1 \in DOMAIN PathOf([self |-> p1], global, copy)[c1] :
          \A k2 \in DOMAIN PathOf([self |-> p2], global, copy)[c2] :
            PathOf([self |-> p1], global, copy)[c1][k1]
              # PathOf([self |-> p2], global, copy)[c2][k2]

\* C27: a doBit(id, state) with an id no bit was set up with resolves and
\* runs no callback; with the id of a bit that has a callback it invokes
\* the callback once, with the state, and is not resolved before the
\* callback's result settles; with the id of a bit without a callback it
\* resolves and runs nothing; no other step runs a callback.
C27_DoBitRunsCallbackOnce ==
  [][IF bitRun'.n = bitRun.n THEN ran' = ran
     ELSE /\ bitRun'.id \notin bits =>
               (bitRun'.pc = "resolved" /\ ran' = ran)
          /\ bitRun'.id \in bits \ callbacks =>
               (bitRun'.pc = "resolved" /\ ran' = ran)
          /\ bitRun'.id \in bits \cap callbacks =>
               /\ ran' = Append(ran, <<bitRun'.id, bitRun'.state>>)
               /\ bitRun'.pc # "resolved"]_vars

\* C28: after exec(str), success is true exactly when every expression
\* matched str; match is the single match result with exactly one
\* expression and the boolean success otherwise; matched and captured are
\* the single value with exactly one expression added without a name, and
\* the keyed map with several expressions or with expressions added under
\* names.
C28_ExecResults ==
  cndOp.op = "exec" =>
    LET n == Cardinality(DOMAIN cnd.expressions)
        named == \E k \in DOMAIN cnd.expressions : k \notin {"0", "1", "2", "3"}
    IN /\ success(cnd) =
            \A k \in DOMAIN cnd.expressions :
              strMatch(cndOp.str, cnd.expressions[k]).hit
       /\ match(cnd) = IF n = 1 THEN "single" ELSE "boolean"
       /\ (n = 1 /\ ~named) => matched(cnd) = "single"
       /\ (n > 1 \/ named) => matched(cnd) = "map"

\* C29: a constructor call or an add given a string that is not of the form
\* /pattern/flags throws, and no expression is added for that string.
C29_MalformedStringThrows ==
  [][(cndOp' # cndOp /\ cndOp'.op \in {"new", "add", "addThrew"}) =>
       \A i \in 1..Len(cndOp'.items) :
         LET v == cndOp'.items[i].value
         IN (/\ v.type = "string"
             /\ ~(/\ Len(v.s) > 1
                  /\ v.s[1] = "/"
                  /\ \E j \in 2..Len(v.s) : v.s[j] = "/")) =>
              IF cndOp'.op = "new" THEN cnd'.threw
              ELSE cndOp'.op = "addThrew" /\ cnd'.expressions = cnd.expressions]_vars

\* C30: a value assigned with set(key, value) is what get(key) returns for
\* as long as no resetConfig and no later set of that setting is made,
\* reloadConfig and extend included; after resetConfig nothing assigned by
\* hand remains and every key holds the value loaded from the sources.
C30_SetSurvivesReload ==
  /\ \A k \in DOMAIN assigned.values :
       /\ k \in DOMAIN settings.config
       /\ settings.config[k] = assigned.values[k]
  /\ assigned.op = "reset" =>
       /\ settings.updates = NoKeys
       /\ \A k \in DOMAIN settings.config : settings.config[k] = "loaded"

\* The orchestration of the latest message is over and hear did not drop it.
Orchestrated == thought.at = Len(Stages) + 1 /\ thought.done # "hear"

\* C31 as stated: at the end of the orchestration of a message that hear
\* did not drop, exactly one of these holds: matched is non-empty, the
\* message was wrapped as a catch-all and passed to act, done was set by a
\* middleware piece.
C31_ExactlyOneOutcome ==
  Orchestrated =>
    Cardinality({o \in {"matched", "wrapped", "done"} :
                   \/ o = "matched" /\ thought.matched # << >>
                   \/ o = "wrapped" /\ thought.wrapped
                   \/ o = "done" /\ thought.done # "none"}) = 1

\* C31 as amended: at the end of the orchestration of a message that hear
\* did not drop, at least one of the three holds.
C31_SomeOutcome ==
  Orchestrated =>
    \/ thought.matched # << >>
    \/ thought.wrapped
    \/ thought.done # "none"

\* A server message that no serve branch matched went to act as a
\* catch-all, where nothing matched it either.
C31_Witness ==
  /\ Orchestrated
  /\ thought.kind = "server"
  /\ thought.wrapped
  /\ thought.matched = << >>
  /\ thought.done = "none"

\* C32: at most one save interval is armed at any time, and a
\* clearSaveInterval() call leaves none armed.
C32_OneTimerArmed ==
  [][/\ Cardinality(armed') <= 1
     /\ (memCalls' # memCalls /\ cancelled') => armed' = {}]_vars

\* C33: the loaded event is emitted only by the step that sets the status
\* to loaded: a shutdown() waiting for it is released only by a step that
\* leaves the status loaded, never while the status is still loading.
C33_LoadedOnlyByLoad ==
  [][\A t \in DOMAIN tasks \cap DOMAIN tasks' :
       (Head(tasks[t]).pc = "waitLoaded" /\ Head(tasks'[t]).pc # "waitLoaded")
         => status' = "loaded"]_vars

\* C34: whenever the status is loaded, starting or started, every one of
\* the seven stage types has its Middleware.
C34_StacksWhileLoaded ==
  status \in {"loaded", "starting", "started"} =>
    middlewareTypes \subseteq DOMAIN middlewares

\* The calls in flight that hold a shutdown() past its first tear-down call.
TearingDown ==
  {t \in DOMAIN tasks :
     \E i \in DOMAIN tasks[t] :
       tasks[t][i].fn = "shutdown" /\ tasks[t][i].pc \in TeardownPcs}

\* C35: no shutdown() begun in status shutdown makes a tear-down call, and
\* the tear-down calls are made once for each entry of the status into
\* shutdown: with several callers of shutdown() at once, at most one of
\* the calls is ever past memory.shutdown().
C35_OneTeardown ==
  /\ \A f \in Frames : f.fn = "shutdown" => f.entry # "shutdown"
  /\ Cardinality(TearingDown) <= 1

\* C36: a piece is invoked only if every piece before it in the stack
\* called next(): after a piece that returned without calling next() or
\* done(), or that called done() or threw, no later piece is invoked.
C36_InvokedOnlyAfterNext ==
  \A i \in PosKind("piece") :
    \A k \in 1..(log[i][2] - 1) : stack[k].act \in {"next", "wrap", "wrapAsync"}

\* C37: clear() keeps the save-timer state: a clearSaveInterval() call
\* leaves the interval whose handle is kept not armed, and no Memory method
\* raises an error, also after clear().
C37_ClearKeepsTimer ==
  [][/\ (memCalls' # memCalls /\ cancelled') => timer' \notin armed'
     /\ thrown' = "none"]_vars

\* C38: once copy is new Path(global), an add, reset or forced on either
\* of the two Paths leaves every stage map of the other as it was.
C38_CopyIndependent ==
  [][(origin'.built /\ pathOp'.op \in {"add", "reset", "forced"}) =>
       PathOf(pathOp', copy', global') = PathOf(pathOp', copy, global)]_vars

\* A forced on the copy has removed a branch that the Path it was built
\* from still holds.
C38_Witness ==
  /\ origin.built
  /\ pathOp.op = "forced"
  /\ pathOp.self = "copy"
  /\ pathOp.was > pathOp.n
  /\ \E id \in DOMAIN global[pathOp.collection] :
       /\ ~global[pathOp.collection][id].force
       /\ id \notin DOMAIN copy[pathOp.collection]

====
